---- MODULE Spec2Model ----
(***************************************************************************)
(* Blender -> Spine exporter (SPINE_Output_*.py).                          *)
(*                                                                         *)
(* The exporter is a single-threaded pipeline of pure functions.  Each     *)
(* function is an operator below, computed the way the Python computes it, *)
(* and each specification calls a family of them on inputs drawn from      *)
(* bounded sets:                                                           *)
(*   fn    the function being called                                       *)
(*   args  its arguments (a record named after the Python parameters)      *)
(*   ret   its return value, once pc = "return"                            *)
(*   pc    "call" before the call, "return" after it                       *)
(*                                                                         *)
(* export_now's per-mesh pipeline keeps, besides, the result of            *)
(* prepare_region (region), the attachment being built (att) and the log   *)
(* lines (LOG); there pc names the next step of the loop body.  The whole  *)
(* of export_now keeps its other locals in local and the files it writes   *)
(* in fs.                                                                  *)
(*                                                                         *)
(* Numbers.  Python floats are modelled by exact integers in a fixed unit: *)
(* region coordinates in pixels on an integer grid, UV coordinates in      *)
(* units of 1e-7, times in microseconds, animation values in units of      *)
(* 1e-7, weights in integer weight units.  round(x, k) is round-half-even  *)
(* on those units.                                                         *)
(***************************************************************************)
EXTENDS Integers, Sequences, FiniteSets, TLC

VARIABLES pc, fn, args, ret, region, att, LOG, fs, local

vars == <<pc, fn, args, ret, region, att, LOG, fs, local>>

(***************************************************************************)
(* Bounds of the model.                                                    *)
(***************************************************************************)
\* largest vertex count of a region handed to the edge functions
MaxV == 4
\* most region points handed to hull_first_reorder
MaxPts == 4
\* most source triangles of a mesh
MaxTris == 2
\* most mesh edges (me.edges) of a mesh
MaxMeshEdges == 1
\* most loops of a mesh handed to build_region_vertices_uvs
MaxLoops == 3
\* most vertex-group memberships of one vertex
MaxGroups == 3
\* largest raw vertex-group weight, in weight units
MaxWeight == 3
\* largest max_influences
MaxInfl == 2
\* most bones of an armature
MaxBones == 2
\* most keyframes of one F-curve
MaxKeys == 2
\* longest flat edge list handed to encode_spine_edges
MaxFlat == 4
\* most mesh objects of a scene
MaxMeshes == 2

(***************************************************************************)
(* Generic helpers.                                                        *)
(***************************************************************************)
Range(s) == {s[i] : i \in DOMAIN s}

SeqsUpTo(S, n) == UNION {[1..k -> S] : k \in 0..n}

Abs(x) == IF x < 0 THEN -x ELSE x

Max2(a, b) == IF a < b THEN b ELSE a

\* r with field k set to v (added when r has no field k)
With(r, k, v) == [f \in DOMAIN r \cup {k} |-> IF f = k THEN v ELSE r[f]]

\* num/den (den > 0) rounded to the nearest integer, ties to the even one:
\* Python's round() on an exact value
RoundDiv(num, den) ==
    LET q == num \div den
        r == num % den
    IN  IF 2 * r < den THEN q
        ELSE IF 2 * r > den THEN q + 1
        ELSE IF q % 2 = 0 THEN q ELSE q + 1

\* the pairs <<flat[1],flat[2]>>, <<flat[3],flat[4]>>, ... of a flat list
PairsOfFlat(flat) == {<<flat[2*k-1], flat[2*k]>> : k \in 1..(Len(flat) \div 2)}

Canon(a, b) == IF a < b THEN <<a, b>> ELSE <<b, a>>

\* lexicographic order on pairs: Python's tuple comparison
PairLess(p, q) == p[1] < q[1] \/ (p[1] = q[1] /\ p[2] < q[2])

RECURSIVE SortedPairs(_)
SortedPairs(S) ==
    IF S = {} THEN <<>>
    ELSE LET m == CHOOSE p \in S : \A q \in S : q = p \/ PairLess(p, q)
         IN  <<m>> \o SortedPairs(S \ {m})

(***************************************************************************)
(* SPINE_Output_meshutils.py: edges in NEW index space.                    *)
(***************************************************************************)
RECURSIVE PairsToFlat(_)
PairsToFlat(edges_pairs) ==
    IF edges_pairs = <<>> THEN <<>>
    ELSE <<Head(edges_pairs)[1], Head(edges_pairs)[2]>> \o PairsToFlat(Tail(edges_pairs))

\* the first loop of _sanitize_pairs: keep the values in [0, vcount)
InRangeInts(flat_list, vcount) ==
    SelectSeq(flat_list, LAMBDA xi : 0 <= xi /\ xi < Max2(0, vcount))

\* if len(ints) % 2: ints = ints[:-1]
DropOddTail(ints) ==
    IF Len(ints) % 2 = 1 THEN SubSeq(ints, 1, Len(ints) - 1) ELSE ints

\* the second loop of _sanitize_pairs: pair up, drop self-loops and duplicates
RECURSIVE PairLoop(_, _, _, _)
PairLoop(ints, i, out, seen) ==
    IF i > Len(ints) THEN out
    ELSE LET a == ints[i]
             b == ints[i + 1]
             p == Canon(a, b)
         IN  IF a = b \/ p \in seen
             THEN PairLoop(ints, i + 2, out, seen)
             ELSE PairLoop(ints, i + 2, out \o p, seen \cup {p})

SanitizePairs(flat_list, vcount) ==
    PairLoop(DropOddTail(InRangeInts(flat_list, vcount)), 1, <<>>, {})

sanitize_edges(edges_flat, vcount) == SanitizePairs(edges_flat, vcount)

sanitize_vert_edges(edges_vert, vcount) ==
    IF edges_vert = <<>> THEN <<>>
    ELSE PairLoop(DropOddTail(InRangeInts(edges_vert, vcount)), 1, <<>>, {})

\* the three undirected edges of triangle number t of a flat triangle list
TriEdges(tri_indices, t) ==
    LET a == tri_indices[3*t - 2]
        b == tri_indices[3*t - 1]
        c == tri_indices[3*t]
    IN  <<Canon(a, b), Canon(b, c), Canon(c, a)>>

\* counts[(u,v)]: how many (triangle, side) slots hold the edge (u,v)
EdgeCount(tri_indices, e) ==
    Cardinality({ts \in (1..(Len(tri_indices) \div 3)) \X (1..3) :
                     TriEdges(tri_indices, ts[1])[ts[2]] = e})

EdgeKeys(tri_indices) ==
    {TriEdges(tri_indices, ts[1])[ts[2]] :
         ts \in (1..(Len(tri_indices) \div 3)) \X (1..3)}

TriEdgesWithCount(tri_indices, cnt) ==
    {e \in EdgeKeys(tri_indices) : EdgeCount(tri_indices, e) = cnt}

TriBoundaryEdgesAnyCount(tri_indices) == EdgeKeys(tri_indices)

TriBoundaryEdges(tri_indices) == TriEdgesWithCount(tri_indices, 1)

TriInternalEdges(tri_indices) == TriEdgesWithCount(tri_indices, 2)

\* the doubling loop shared by encode_spine_edges and edges_vertices_to_even_stream
RECURSIVE EvenStreamLoop(_, _, _, _)
EvenStreamLoop(clean, i, max_stream, out) ==
    IF i > Len(clean) THEN out
    ELSE LET a == clean[i] * 2
             b == clean[i + 1] * 2
         IN  IF 0 <= a /\ a <= max_stream /\ 0 <= b /\ b <= max_stream /\ a # b
             THEN EvenStreamLoop(clean, i + 2, max_stream, out \o <<a, b>>)
             ELSE EvenStreamLoop(clean, i + 2, max_stream, out)

EncodeNoDoubling(keep_edges_new, vertex_count) ==
    SanitizePairs(keep_edges_new, vertex_count)

encode_spine_edges(keep_edges_new, vertex_count) ==
    LET clean == SanitizePairs(keep_edges_new, vertex_count)
    IN  IF clean = <<>> THEN <<>>
        ELSE EvenStreamLoop(clean, 1, (vertex_count * 2) - 1, <<>>)

\* _map_src_edge_to_new: the FIRST NEW index of each source vertex
FirstNewOf(src_v, new_to_src) ==
    LET hits == {k \in 1..Len(new_to_src) : new_to_src[k][1] = src_v}
    IN  IF hits = {} THEN -1
        ELSE (CHOOSE k \in hits : \A h \in hits : k <= h) - 1

\* the mapping to the LAST NEW index of each source vertex
map_src_edge_to_last(src_edge, new_to_src) ==
    LET LastOf(v) == LET hits == {k \in 1..Len(new_to_src) : new_to_src[k][1] = v}
                     IN  IF hits = {} THEN -1
                         ELSE (CHOOSE k \in hits : \A h \in hits : k >= h) - 1
    IN  IF LastOf(src_edge[1]) = -1 \/ LastOf(src_edge[2]) = -1
           \/ LastOf(src_edge[1]) = LastOf(src_edge[2]) THEN <<>>
        ELSE Canon(LastOf(src_edge[1]), LastOf(src_edge[2]))

\* returns <<>> for None
map_src_edge_to_new(src_edge, new_to_src) ==
    LET first_i == FirstNewOf(src_edge[1], new_to_src)
        first_j == FirstNewOf(src_edge[2], new_to_src)
    IN  IF first_i = -1 \/ first_j = -1 \/ first_i = first_j THEN <<>>
        ELSE Canon(first_i, first_j)

\* _default_edge_mode: the configured mode, "mixed" when it is none of the four
default_edge_mode(cfg_edges_mode) ==
    IF cfg_edges_mode \in {"boundary", "manual", "mixed", "all"}
    THEN cfg_edges_mode ELSE "mixed"

\* the boundary block of build_edges_from_tris_and_manual (lines 163-168)
BoundaryPairs(triangles, vcount) ==
    {Canon(e[1], e[2]) : e \in {b \in TriBoundaryEdges(triangles) :
         0 <= b[1] /\ b[1] < vcount /\ 0 <= b[2] /\ b[2] < vcount /\ b[1] # b[2]}}

\* the artist/manual block (lines 171-193)
ManualPairs(m, new_to_src, vcount, me_edges, use_seams, use_sharp) ==
    LET allowed(e) == m = "all" \/ (use_seams /\ e.use_seam)
                                \/ (use_sharp /\ e.use_edge_sharp)
        mapped(e) == map_src_edge_to_new(e.vertices, new_to_src)
    IN  {mapped(me_edges[k]) : k \in {j \in 1..Len(me_edges) :
             /\ allowed(me_edges[j])
             /\ mapped(me_edges[j]) # <<>>
             /\ 0 <= mapped(me_edges[j])[1] /\ mapped(me_edges[j])[1] < vcount
             /\ 0 <= mapped(me_edges[j])[2] /\ mapped(me_edges[j])[2] < vcount}}

\* mode "None" stands for Python's None: the configured default is used
build_edges_from_tris_and_manual(triangles, new_to_src, region_xy, me_edges, mode, use_seams, use_sharp, include_boundary, cfg_edges_mode) ==
    LET m == IF mode = "None" THEN default_edge_mode(cfg_edges_mode) ELSE mode
        vcount == Len(region_xy)
        bnd == IF m \in {"boundary", "mixed", "all"} /\ include_boundary /\ triangles # <<>>
               THEN BoundaryPairs(triangles, vcount) ELSE {}
        man == IF m \in {"manual", "mixed", "all"}
               THEN ManualPairs(m, new_to_src, vcount, me_edges, use_seams, use_sharp)
               ELSE {}
    IN  SanitizePairs(PairsToFlat(SortedPairs(bnd \cup man)), vcount)

edges_perimeter_from_hull(hull_idx) ==
    IF Len(hull_idx) < 3 THEN <<>>
    ELSE LET n == Len(hull_idx)
         IN  PairsToFlat([i \in 1..n |-> <<hull_idx[i], hull_idx[(i % n) + 1]>>])

\* validate_attachment_edges: "ok" when it returns, else the error it raises
validate_attachment_edges(a) ==
    IF "edges" \notin DOMAIN a \/ a.edges = <<>> THEN "ok"
    ELSE LET vcount == Len(a.uvs) \div 2
             max_stream == (vcount * 2) - 1
             bad == {k \in 1..Len(a.edges) :
                        a.edges[k] % 2 # 0 \/ a.edges[k] < 0 \/ a.edges[k] > max_stream}
             first == CHOOSE k \in bad : \A h \in bad : k <= h
         IN  IF vcount <= 0 THEN "has edges but no UVs/verts"
             ELSE IF bad = {} THEN "ok"
             ELSE IF a.edges[first] % 2 # 0 THEN "ODD edge index"
             ELSE "edge index out of range"

(***************************************************************************)
(* SPINE_Output_meshutils.py: convex hull and hull-first reorder.          *)
(* Points are <<x, y>> on an integer pixel grid; indices are 0-based as in *)
(* the Python, so point i is pts[i + 1].                                   *)
(***************************************************************************)
tri_area2_xy(pts, a, b, c) ==
    LET ax == pts[a + 1][1]  ay == pts[a + 1][2]
        bx == pts[b + 1][1]  by == pts[b + 1][2]
        cx == pts[c + 1][1]  cy == pts[c + 1][2]
    IN  (bx - ax) * (cy - ay) - (by - ay) * (cx - ax)

\* sorted(range(n), key=(x, y)): a stable sort, ties keep index order
IdxLess(pts, i, j) ==
    \/ pts[i + 1][1] < pts[j + 1][1]
    \/ pts[i + 1][1] = pts[j + 1][1] /\ pts[i + 1][2] < pts[j + 1][2]
    \/ pts[i + 1] = pts[j + 1] /\ i < j

RECURSIVE SortIdx(_, _)
SortIdx(pts, S) ==
    IF S = {} THEN <<>>
    ELSE LET m == CHOOSE i \in S : \A j \in S : j = i \/ IdxLess(pts, i, j)
         IN  <<m>> \o SortIdx(pts, S \ {m})

Reverse(s) == [i \in 1..Len(s) |-> s[Len(s) + 1 - i]]

\* while len(st) >= 2 and cross(st[-2], st[-1], i) <= 0: st.pop()
RECURSIVE PopWhile(_, _, _)
PopWhile(pts, st, i) ==
    IF Len(st) >= 2 /\ tri_area2_xy(pts, st[Len(st) - 1], st[Len(st)], i) <= 0
    THEN PopWhile(pts, SubSeq(st, 1, Len(st) - 1), i)
    ELSE st

RECURSIVE HalfChain(_, _, _, _)
HalfChain(pts, order, k, st) ==
    IF k > Len(order) THEN st
    ELSE HalfChain(pts, order, k + 1, Append(PopWhile(pts, st, order[k]), order[k]))

\* de-duplicate while preserving order
RECURSIVE DedupSeq(_, _, _)
DedupSeq(s, k, out) ==
    IF k > Len(s) THEN out
    ELSE IF s[k] \in Range(out) THEN DedupSeq(s, k + 1, out)
    ELSE DedupSeq(s, k + 1, Append(out, s[k]))

ButLast(s) == SubSeq(s, 1, Len(s) - 1)

convex_hull_indices_xy(pts) ==
    LET n == Len(pts)
        sorted_idx == SortIdx(pts, 0..(n - 1))
        lower == HalfChain(pts, sorted_idx, 1, <<>>)
        upper == HalfChain(pts, Reverse(sorted_idx), 1, <<>>)
    IN  IF n <= 3 THEN [i \in 1..n |-> i - 1]
        ELSE DedupSeq(ButLast(lower) \o ButLast(upper), 1, <<>>)

\* ascending list of the members of a set of integers
RECURSIVE SortInts(_)
SortInts(S) ==
    IF S = {} THEN <<>>
    ELSE LET m == CHOOSE i \in S : \A j \in S : i <= j
         IN  <<m>> \o SortInts(S \ {m})

\* position (0-based) of value old in new_order: old_to_new[old]
OldToNew(new_order, old) ==
    (CHOOSE i \in 1..Len(new_order) :
         new_order[i] = old /\ \A j \in 1..Len(new_order) : new_order[j] = old => j <= i) - 1

\* one pass of the remap loop (lines 275-282): <<>> when the triangle is dropped
WindTriangleNoSwap(region_xy2, a2, b2, c2) ==
    IF tri_area2_xy(region_xy2, a2, b2, c2) = 0 THEN <<>> ELSE <<a2, b2, c2>>

\* abs(area2) < 1e-9 is area2 = 0 on integer coordinates
WindTriangle(region_xy2, a2, b2, c2) ==
    LET area2 == tri_area2_xy(region_xy2, a2, b2, c2)
    IN  IF area2 = 0 THEN <<>>
        ELSE IF area2 < 0 THEN <<a2, c2, b2>>
        ELSE <<a2, b2, c2>>

RECURSIVE RemapTris(_, _, _, _, _)
RemapTris(region_xy2, new_order, triangles, i, out) ==
    IF i > Len(triangles) THEN out
    ELSE RemapTris(region_xy2, new_order, triangles, i + 3,
                   out \o WindTriangle(region_xy2,
                                       OldToNew(new_order, triangles[i]),
                                       OldToNew(new_order, triangles[i + 1]),
                                       OldToNew(new_order, triangles[i + 2])))

\* the fallback of lines 283-285: a fan from region index 0
RECURSIVE FanTris(_, _)
FanTris(n, i) ==
    IF i > n - 2 THEN <<>> ELSE <<0, i, i + 1>> \o FanTris(n, i + 1)

\* uvs is the flat list [u0, v0, u1, v1, ...]
UvPair(uvs, old) == <<uvs[2 * old + 1], uvs[2 * old + 2]>>

TailIdx(n, hull_idx) == SortInts((0..(n - 1)) \ Range(hull_idx))

NewOrderTailFirst(n, hull_idx) == TailIdx(n, hull_idx) \o hull_idx

NewOrder(n, hull_idx) == hull_idx \o TailIdx(n, hull_idx)

hull_first_reorder(region_xy_centered, uvs, new_to_src, triangles) ==
    LET n == Len(region_xy_centered)
        hull_idx == IF n >= 3 THEN convex_hull_indices_xy(region_xy_centered)
                    ELSE [i \in 1..n |-> i - 1]
        new_order == NewOrder(n, hull_idx)
        region_xy2 == [i \in 1..Len(new_order) |-> region_xy_centered[new_order[i] + 1]]
        uvs2 == PairsToFlat([i \in 1..Len(new_order) |-> UvPair(uvs, new_order[i])])
        new_to_src2 == [i \in 1..Len(new_order) |-> new_to_src[new_order[i] + 1]]
        remapped == RemapTris(region_xy2, new_order, triangles, 1, <<>>)
        remapped_tris == IF remapped = <<>> /\ Len(region_xy2) >= 3
                         THEN FanTris(Len(region_xy2), 1) ELSE remapped
    IN  [region_xy |-> region_xy2, uvs |-> uvs2, new_to_src |-> new_to_src2,
         triangles |-> remapped_tris, hull_idx |-> hull_idx]

(***************************************************************************)
(* SPINE_Output_meshutils.py: build_region_vertices_uvs.                   *)
(* UV coordinates and region coordinates are integers in units of 1e-7, so *)
(* that rounding to 6 decimals is rounding to a multiple of 10.            *)
(***************************************************************************)
\* 1.0 in units of 1e-7
UvOne == 10000000

\* round(x, 6) of a value held in units of 1e-7
Round6(x7) == RoundDiv(x7, 10) * 10

\* lines 216-221: (u, v) of loop li (0-based); (0, 1) where the layer has no data
LoopUV(has_uv_layer, uv_data, li) ==
    IF has_uv_layer /\ li < Len(uv_data)
    THEN <<uv_data[li + 1][1], UvOne - uv_data[li + 1][2]>>
    ELSE <<0, UvOne>>

LoopKeyUvOnly(vi, u, v) == <<0, Round6(u), Round6(v)>>

\* line 222: the dedup key
LoopKey(vi, u, v) == <<vi, Round6(u), Round6(v)>>

\* the loop of lines 215-229; keys lists the dedup keys in NEW order, so that
\* loopkey_to_new[keys[k]] = k - 1
RECURSIVE BuildRegionLoop(_, _, _, _, _, _, _)
BuildRegionLoop(loops, has_uv_layer, uv_data, img_w, img_h, li, acc) ==
    IF li >= Len(loops) THEN acc
    ELSE LET vi == loops[li + 1]
             uv == LoopUV(has_uv_layer, uv_data, li)
             key == LoopKey(vi, uv[1], uv[2])
             vx == uv[1] * img_w - (img_w * UvOne) \div 2
             vy == (img_h * UvOne) \div 2 - uv[2] * img_h
         IN  IF key \in Range(acc.keys)
             THEN BuildRegionLoop(loops, has_uv_layer, uv_data, img_w, img_h, li + 1, acc)
             ELSE BuildRegionLoop(loops, has_uv_layer, uv_data, img_w, img_h, li + 1,
                      [keys |-> Append(acc.keys, key),
                       new_to_src |-> Append(acc.new_to_src, <<vi, li>>),
                       uvs |-> acc.uvs \o <<Round6(uv[1]), Round6(uv[2])>>,
                       region_xy |-> Append(acc.region_xy, <<vx, vy>>)])

\* loops is me.loops as the list of loop.vertex_index
build_region_vertices_uvs(loops, has_uv_layer, uv_data, img_w, img_h) ==
    BuildRegionLoop(loops, has_uv_layer, uv_data, img_w, img_h, 0,
                    [keys |-> <<>>, new_to_src |-> <<>>, uvs |-> <<>>, region_xy |-> <<>>])

\* loopkey_to_new[key]
LoopKeyToNew(keys, key) == (CHOOSE k \in 1..Len(keys) : keys[k] = key) - 1

(***************************************************************************)
(* SPINE_Output_weights.py: build_vertex_influences.                       *)
(* Raw weights are integers in a fixed unit; a normalized weight w / s is  *)
(* the fraction <<w, s>>.                                                  *)
(***************************************************************************)
\* lines 96-99: the deform influences of one vertex with a positive weight;
\* g.group is a 0-based index into obj.vertex_groups
RECURSIVE RawInfluences(_, _, _)
RawInfluences(groups, vertex_groups, deform_names) ==
    IF groups = <<>> THEN <<>>
    ELSE LET g == Head(groups)
             known == g.group \in 0..(Len(vertex_groups) - 1)
             rest == RawInfluences(Tail(groups), vertex_groups, deform_names)
         IN  IF known /\ vertex_groups[g.group + 1] # ""
                      /\ vertex_groups[g.group + 1] \in deform_names /\ g.weight > 0
             THEN <<<<vertex_groups[g.group + 1], g.weight>>>> \o rest
             ELSE rest

\* the pruning that also keeps a weight equal to weight_eps
PruneBelowEps(infl_raw, weight_eps) ==
    SelectSeq(infl_raw, LAMBDA t : t[2] >= weight_eps)

\* line 101
PruneByEps(infl_raw, weight_eps) ==
    SelectSeq(infl_raw, LAMBDA t : t[2] > weight_eps)

\* t placed behind every entry of sorted that weighs at least as much
RECURSIVE InsertByWeight(_, _)
InsertByWeight(sorted, t) ==
    IF sorted = <<>> THEN <<t>>
    ELSE IF Head(sorted)[2] >= t[2]
         THEN <<Head(sorted)>> \o InsertByWeight(Tail(sorted), t)
         ELSE <<t>> \o sorted

\* line 102: stable sort by descending weight
RECURSIVE SortByWeightDesc(_)
SortByWeightDesc(infl_raw) ==
    IF infl_raw = <<>> THEN <<>>
    ELSE InsertByWeight(SortByWeightDesc(ButLast(infl_raw)), infl_raw[Len(infl_raw)])

TruncateOneMore(infl_raw, max_influences) ==
    SubSeq(infl_raw, 1, IF max_influences + 1 < Len(infl_raw)
                        THEN max_influences + 1 ELSE Len(infl_raw))

\* line 103: infl_raw[:max_influences], max_influences >= 0
Truncate(infl_raw, max_influences) ==
    SubSeq(infl_raw, 1, IF max_influences < Len(infl_raw)
                        THEN max_influences ELSE Len(infl_raw))

RECURSIVE SumWeights(_)
SumWeights(infl_raw) ==
    IF infl_raw = <<>> THEN 0 ELSE Head(infl_raw)[2] + SumWeights(Tail(infl_raw))

\* lines 96-109 for one vertex
VertexInfluences(groups, vertex_groups, deform_names, weight_eps, max_influences, fallback_bone) ==
    LET kept == Truncate(SortByWeightDesc(PruneByEps(
                    RawInfluences(groups, vertex_groups, deform_names), weight_eps)),
                    max_influences)
        s == SumWeights(kept)
    IN  IF kept # <<>>
        THEN [i \in 1..Len(kept) |->
                  <<kept[i][1], IF s > 0 THEN <<kept[i][2], s>> ELSE <<0, 1>>>>]
        ELSE <<<<fallback_bone, <<1, 1>>>>>>

\* vertices is me.vertices as the list of v.groups; the result maps the 0-based
\* vertex index v to out[v + 1]
build_vertex_influences(vertices, vertex_groups, deform_names, weight_eps, max_influences, fallback_bone) ==
    [v \in 1..Len(vertices) |->
        VertexInfluences(vertices[v], vertex_groups, deform_names, weight_eps,
                         max_influences, fallback_bone)]

(***************************************************************************)
(* SPINE_Output_weights.py: the choice of the slot bone.                   *)
(* A bone is a record with name, parent ("" for a bone without parent) and *)
(* use_deform; None is <<>> and a returned name n is <<n>> inside the      *)
(* helpers, the plain name out of pick_slot_bone_for_object.               *)
(***************************************************************************)
\* exporter lines 116-118: deform_names and the keys of bone_to_skel_idx
DeformNames(all_bones) ==
    {all_bones[i].name : i \in {j \in 1..Len(all_bones) : all_bones[j].use_deform}}

BoneNameSet(all_bones) == {all_bones[i].name : i \in 1..Len(all_bones)}

\* str.lower on the bone names of the armatures modelled
Lower(s) ==
    CASE s = "Root" -> "root"
      [] s = "ROOT" -> "root"
      [] OTHER -> s

\* the names v.groups of one vertex adds to counts (lines 31-34), in order
RECURSIVE GroupHits(_, _, _)
GroupHits(groups, vertex_groups, deform_names) ==
    IF groups = <<>> THEN <<>>
    ELSE LET g == Head(groups)
             rest == GroupHits(Tail(groups), vertex_groups, deform_names)
         IN  IF g.group \in 0..(Len(vertex_groups) - 1)
                /\ vertex_groups[g.group + 1] \in deform_names /\ g.weight > 0
             THEN <<vertex_groups[g.group + 1]>> \o rest
             ELSE rest

RECURSIVE DeformHits(_, _, _)
DeformHits(vertices, vertex_groups, deform_names) ==
    IF vertices = <<>> THEN <<>>
    ELSE GroupHits(Head(vertices), vertex_groups, deform_names)
         \o DeformHits(Tail(vertices), vertex_groups, deform_names)

\* dominant_deform_vg_on_mesh: max over counts.items() returns the first key,
\* in insertion order, that has the largest count
dominant_deform_vg_on_mesh(vertices, vertex_groups, deform_names) ==
    LET hits == DeformHits(vertices, vertex_groups, deform_names)
        keys == DedupSeq(hits, 1, <<>>)
        count(k) == Cardinality({i \in 1..Len(hits) : hits[i] = k})
        best == CHOOSE i \in 1..Len(keys) :
                    /\ \A j \in 1..Len(keys) : count(keys[j]) <= count(keys[i])
                    /\ \A j \in 1..(i - 1) : count(keys[j]) < count(keys[i])
    IN  IF hits = <<>> THEN <<>> ELSE <<keys[best]>>

\* the name of the first bone of all_bones among the places hits, <<>> when
\* hits is empty
FirstBoneAt(all_bones, hits) ==
    IF hits = {} THEN <<>>
    ELSE <<all_bones[CHOOSE i \in hits : \A j \in hits : i <= j].name>>

\* lines 41-48: a deform bone under a top-level bone, else one with a parent
FirstDeformWithParent(all_bones, deform_names) ==
    LET roots == {all_bones[i].name : i \in {j \in 1..Len(all_bones) : all_bones[j].parent = ""}}
        child_of_root == {i \in 1..Len(all_bones) :
                             /\ all_bones[i].name \in deform_names
                             /\ all_bones[i].parent # "" /\ all_bones[i].parent \in roots}
        child == {i \in 1..Len(all_bones) :
                     all_bones[i].name \in deform_names /\ all_bones[i].parent # ""}
    IN  IF child_of_root # {} THEN FirstBoneAt(all_bones, child_of_root)
        ELSE FirstBoneAt(all_bones, child)

\* first_nonroot_deform_child: three passes over all_bones
first_nonroot_deform_child(all_bones, deform_names) ==
    LET deform == {i \in 1..Len(all_bones) : all_bones[i].name \in deform_names}
    IN  IF FirstDeformWithParent(all_bones, deform_names) # <<>>
        THEN FirstDeformWithParent(all_bones, deform_names)
        ELSE FirstBoneAt(all_bones, deform)

\* lines 63-67 and 80-84: the top-level bone called "root" in any case,
\* else the first top-level bone, else the first bone
RootishBone(all_bones) ==
    LET top == {i \in 1..Len(all_bones) : all_bones[i].parent = ""}
        top_root == {i \in top : Lower(all_bones[i].name) = "root"}
    IN  IF top_root # {} THEN FirstBoneAt(all_bones, top_root)[1]
        ELSE IF top # {} THEN FirstBoneAt(all_bones, top)[1]
        ELSE all_bones[1].name

\* obj is [parent_is_arm, parent_bone, vertices, vertex_groups]; arm is never
\* None in export_now
pick_slot_bone_for_object(obj, bone_to_skel_idx, all_bones, deform_names) ==
    LET dom == dominant_deform_vg_on_mesh(obj.vertices, obj.vertex_groups, deform_names)
        fb == first_nonroot_deform_child(all_bones, deform_names)
    IN  IF obj.parent_is_arm /\ obj.parent_bone = "" THEN RootishBone(all_bones)
        ELSE IF dom # <<>> /\ dom[1] \in bone_to_skel_idx THEN dom[1]
        ELSE IF fb # <<>> THEN fb[1]
        ELSE RootishBone(all_bones)

(***************************************************************************)
(* SPINE_Output_helpers.py, SPINE_Output_rigspace.py and the bone block of *)
(* export_now.  Frame-space points are integer triples <<x, y, z>> in      *)
(* Blender units; angles are integers in units of 1e-5 degree; emitted     *)
(* lengths and offsets are integers in units of 1e-4 pixel, emitted        *)
(* rotations in units of 1e-4 degree.                                      *)
(***************************************************************************)
\* one degree, in angle units
Deg == 100000

\* normalize_deg
normalize_deg(a) ==
    LET m == ((a + 180 * Deg) % (360 * Deg)) - 180 * Deg
    IN  IF m = -180 * Deg THEN 180 * Deg ELSE m

\* is_vertical_rel_deg without the absolute value of the relative angle
is_vertical_rel_deg_signed(rel_ccw, tol) ==
    Abs(normalize_deg(rel_ccw) - 90 * Deg) <= tol

\* is_vertical_rel_deg
is_vertical_rel_deg(rel_ccw, tol) ==
    Abs(Abs(normalize_deg(rel_ccw)) - 90 * Deg) <= tol

\* math.hypot on directions of integer length
Hypot(dx, dz) == CHOOSE L \in 0..(Abs(dx) + Abs(dz)) : L * L = dx * dx + dz * dz

\* math.degrees(math.atan2(dz, dx)) on the directions of the bones modelled:
\* the four axis directions and the two 3-4-5 directions
Atan2Deg(dz, dx) ==
    CASE dz = 0 /\ dx > 0 -> 0
      [] dz > 0 /\ dx = 0 -> 90 * Deg
      [] dz = 0 /\ dx < 0 -> 180 * Deg
      [] dz < 0 /\ dx = 0 -> -90 * Deg
      [] dx = 3 /\ dz = 4 -> 5313010
      [] dx = -4 /\ dz = 3 -> 14313010

\* angle_ccw_xz
angle_ccw_xz(p_head, p_tail) ==
    LET dx == p_tail[1] - p_head[1]
        dz == p_tail[3] - p_head[3]
    IN  IF dx = 0 /\ dz = 0 THEN 0 ELSE Atan2Deg(dz, dx)

\* basis_from_parent: the unit vectors (ux, uz) and (vx, vz) as the integer
\* vectors x and y over the common denominator L
basis_from_parent(p_head, p_tail) ==
    LET dx == p_tail[1] - p_head[1]
        dz == p_tail[3] - p_head[3]
        L == Hypot(dx, dz)
    IN  IF L = 0 THEN [x |-> <<1, 0>>, y |-> <<0, 1>>, L |-> 1]
        ELSE [x |-> <<dx, dz>>, y |-> <<-dz, dx>>, L |-> L]

ProjectUnscaled(p_head, basis, pointF, scale_px) ==
    LET vx == pointF[1] - p_head[1]
        vz == pointF[3] - p_head[3]
    IN  [x |-> basis.x[1] * vx + basis.x[2] * vz,
         y |-> basis.y[1] * vx + basis.y[2] * vz,
         den |-> basis.L]

\* project_to_basis_px: (x_px, y_px) as the fractions x / den and y / den
project_to_basis_px(p_head, basis, pointF, scale_px) ==
    LET vx == pointF[1] - p_head[1]
        vz == pointF[3] - p_head[3]
    IN  [x |-> (basis.x[1] * vx + basis.x[2] * vz) * scale_px,
         y |-> (basis.y[1] * vx + basis.y[2] * vz) * scale_px,
         den |-> basis.L]

\* abs(num / den) > 1e-6
ExceedsMicro(num, den) ==
    num # 0 /\ (Abs(num) >= den \/ Abs(num) * 1000000 > den)

\* round(num / den, 4), in units of 1e-4
Round4Of(num, den) == RoundDiv(num * 10000, den)

\* the bone of the armature called name
BoneNamed(all_bones, name) ==
    all_bones[CHOOSE i \in 1..Len(all_bones) : all_bones[i].name = name]

\* exporter lines 93-113: the record of one bone; a bone is
\* [name, parent, head, tail] with parent = "" for a bone without parent
BoneOut(b, all_bones, SCALE, ROOT_ROTATION_DEG, VERTICAL_TOL_DEG) ==
    LET L == Hypot(b.tail[1] - b.head[1], b.tail[3] - b.head[3])
        length == Max2(100, L * SCALE * 10000)
    IN  IF b.parent = ""
        THEN [name |-> b.name, length |-> length,
              rotation |-> RoundDiv(ROOT_ROTATION_DEG, 10)]
        ELSE LET p == BoneNamed(all_bones, b.parent)
                 basis == basis_from_parent(p.head, p.tail)
                 xy == project_to_basis_px(p.head, basis, b.head, SCALE)
                 rel_ccw == angle_ccw_xz(b.head, b.tail) - angle_ccw_xz(p.head, p.tail)
                 rot0 == normalize_deg(-rel_ccw)
                 rot_spine == IF ~is_vertical_rel_deg(rel_ccw, VERTICAL_TOL_DEG)
                              THEN -rot0 ELSE rot0
                 d0 == [name |-> b.name, parent |-> p.name, length |-> length]
                 d1 == IF ExceedsMicro(xy.x, xy.den)
                       THEN With(d0, "x", Round4Of(xy.x, xy.den)) ELSE d0
                 d2 == IF ExceedsMicro(xy.y, xy.den)
                       THEN With(d1, "y", Round4Of(xy.y, xy.den)) ELSE d1
             IN  IF rot_spine # 0
                 THEN With(d2, "rotation", RoundDiv(rot_spine, 10)) ELSE d2

\* exporter lines 91-114: bones_out
EmitBones(all_bones, SCALE, ROOT_ROTATION_DEG, VERTICAL_TOL_DEG) ==
    [i \in 1..Len(all_bones) |->
        BoneOut(all_bones[i], all_bones, SCALE, ROOT_ROTATION_DEG, VERTICAL_TOL_DEG)]

(***************************************************************************)
(* SPINE_Output_animation.py.                                              *)
(* A keyframe is [co, interpolation, handle_left, handle_right]; co and    *)
(* the handles are pairs <<frame, value>>.  Frames are integers in units   *)
(* of half a frame, so that keyframes between two frames exist.  Raw       *)
(* values are integers in the unit of their property: 1e-5 Blender unit    *)
(* for location, 1e-2 radian for rotation_euler, 1e-7 for scale.  Emitted  *)
(* times are integers in microseconds; emitted values are integers in      *)
(* units of 1e-4 (translate, rotate) or 1e-6 (scale).                      *)
(***************************************************************************)
\* AXIS_MAP, lines 15-26
AxisXIndex(kind) ==
    CASE kind = "translate" -> 1
      [] kind = "rotate" -> 2
      [] kind = "scale" -> 0

AxisYIndex(kind) ==
    CASE kind = "translate" -> 0
      [] kind = "scale" -> 2

\* _scene_seconds of the frame h / 2, as the fraction <<num, den>>
scene_seconds(h, fps) == IF fps > 0 THEN <<h, 2 * fps>> ELSE <<h, 2>>

\* round(t, 6) of a fraction of seconds, in microseconds
RoundSeconds6(t) == RoundDiv(t[1] * 1000000, t[2])

\* int(co.x) of the frame h / 2, h >= 0
IntTrunc(h) == h \div 2

\* int(round(co.x)) of the frame h / 2
IntRound(h) == RoundDiv(h, 2)

\* the frames of _knot_map_by_frame(fc)
KnotFrames(keyframe_points) ==
    {IntRound(keyframe_points[i].co[1]) : i \in 1..Len(keyframe_points)}

\* _knot_map_by_frame: of the keyframes that round to one frame the last one
\* stays in the dict
knot_map_by_frame(keyframe_points) ==
    [f \in KnotFrames(keyframe_points) |->
        keyframe_points[CHOOSE i \in 1..Len(keyframe_points) :
            /\ IntRound(keyframe_points[i].co[1]) = f
            /\ \A j \in (i + 1)..Len(keyframe_points) :
                   IntRound(keyframe_points[j].co[1]) # f]]

\* knotmap.get(f): <<k>>, or <<>> for None
KnotGet(knotmap, f) == IF f \in DOMAIN knotmap THEN <<knotmap[f]>> ELSE <<>>

\* round(math.degrees(v), 4) of a value in units of 1e-2 radian, in units of
\* 1e-4 degree; one radian is 57.29578 degrees.  The product v * 5729578 / 1000
\* is formed for the whole radians and for the rest apart, and rounded once.
Degrees4(v) ==
    LET whole == (v \div 100) * 5729578
        rest == (v % 100) * 5729578
    IN  (whole \div 10) + (rest \div 1000)
            + RoundDiv(100 * (whole % 10) + (rest % 1000), 1000)

\* build_animations lines 172-173, 188, 214: the value transform of a property
ValueXform(kind, SCALE, v) ==
    CASE kind = "translate" -> RoundDiv(v * SCALE, 10)
      [] kind = "rotate" -> Degrees4(v)
      [] kind = "scale" -> RoundDiv(v, 10)

\* the decimals the transformed values of a property are held with
OutDecimals(kind) == IF kind = "scale" THEN 6 ELSE 4

RECURSIVE Pow10(_)
Pow10(n) == IF n = 0 THEN 1 ELSE 10 * Pow10(n - 1)

\* round(y, 6) of a value held with the given number of decimals
RoundTo6(y, decimals) ==
    IF decimals > 6 THEN RoundDiv(y, Pow10(decimals - 6)) * Pow10(decimals - 6) ELSE y

HandlesAnyInterpolation(k_i, k_j, fps, kind, SCALE) ==
    IF k_i = <<>> \/ k_j = <<>> THEN <<>>
    ELSE IF k_j[1].co[1] = k_i[1].co[1] THEN <<>>
    ELSE IF k_j[1].co[2] = k_i[1].co[2] THEN <<>>
    ELSE <<RoundSeconds6(scene_seconds(k_i[1].handle_right[1], fps)),
           RoundTo6(ValueXform(kind, SCALE, k_i[1].handle_right[2]), OutDecimals(kind)),
           RoundSeconds6(scene_seconds(k_j[1].handle_left[1], fps)),
           RoundTo6(ValueXform(kind, SCALE, k_j[1].handle_left[2]), OutDecimals(kind))>>

HandlesSwapped(k_i, k_j, fps, kind, SCALE) ==
    IF k_i = <<>> \/ k_j = <<>> THEN <<>>
    ELSE IF k_i[1].interpolation # "BEZIER" \/ k_j[1].interpolation # "BEZIER" THEN <<>>
    ELSE IF k_j[1].co[1] = k_i[1].co[1] THEN <<>>
    ELSE IF k_j[1].co[2] = k_i[1].co[2] THEN <<>>
    ELSE <<RoundSeconds6(scene_seconds(k_i[1].handle_left[1], fps)),
           RoundTo6(ValueXform(kind, SCALE, k_i[1].handle_left[2]), OutDecimals(kind)),
           RoundSeconds6(scene_seconds(k_j[1].handle_right[1], fps)),
           RoundTo6(ValueXform(kind, SCALE, k_j[1].handle_right[2]), OutDecimals(kind))>>

\* _handles_to_curve_abs_seconds; k_i and k_j are <<k>> or <<>> (None), the
\* result is the 4-number list or <<>> (None).  Frames and raw values are
\* integers, so two of them are within 1e-12 exactly when they are equal.
handles_to_curve_abs_seconds(k_i, k_j, fps, kind, SCALE) ==
    IF k_i = <<>> \/ k_j = <<>> THEN <<>>
    ELSE IF k_i[1].interpolation # "BEZIER" \/ k_j[1].interpolation # "BEZIER" THEN <<>>
    ELSE IF k_j[1].co[1] = k_i[1].co[1] THEN <<>>
    ELSE IF k_j[1].co[2] = k_i[1].co[2] THEN <<>>
    ELSE <<RoundSeconds6(scene_seconds(k_i[1].handle_right[1], fps)),
           RoundTo6(ValueXform(kind, SCALE, k_i[1].handle_right[2]), OutDecimals(kind)),
           RoundSeconds6(scene_seconds(k_j[1].handle_left[1], fps)),
           RoundTo6(ValueXform(kind, SCALE, k_j[1].handle_left[2]), OutDecimals(kind))>>

\* fc.evaluate(f) at the integer frame f.  The evaluation is Blender's; it is
\* taken to hold the value of the last keyframe at or before f, and the value
\* of the first keyframe before it (0 for a curve without keyframes).
Evaluate(keyframe_points, f) ==
    LET before == {i \in 1..Len(keyframe_points) : keyframe_points[i].co[1] <= 2 * f}
    IN  IF keyframe_points = <<>> THEN 0
        ELSE IF before = {} THEN keyframe_points[1].co[2]
        ELSE keyframe_points[CHOOSE i \in before : \A j \in before : j <= i].co[2]

\* the tag of a stepped record
Stepped == <<"stepped">>

StartIsLinear(k_i_ref) ==
    k_i_ref # <<>> /\ k_i_ref[1].interpolation = "LINEAR"

\* line 97: the keyframe that starts the interval holds its value
StartIsConstant(k_i_ref) ==
    k_i_ref # <<>> /\ k_i_ref[1].interpolation = "CONSTANT"

\* lines 93-122: the curve tag of the record at frames[idx], <<>> for none
CurveOf(fcurves, knotmaps, frames, idx, fps, kind, SCALE) ==
    IF idx >= Len(frames) THEN <<>>
    ELSE LET f == frames[idx]
             nxt == frames[idx + 1]
             k_i_ref == KnotGet(knotmaps[1], f)
             k_j_ref == KnotGet(knotmaps[1], nxt)
         IN  IF StartIsConstant(k_i_ref) THEN Stepped
             ELSE IF Len(fcurves) = 1
                  THEN handles_to_curve_abs_seconds(k_i_ref, k_j_ref, fps, kind, SCALE)
                  ELSE LET cx == handles_to_curve_abs_seconds(
                                     KnotGet(knotmaps[1], f), KnotGet(knotmaps[1], nxt),
                                     fps, kind, SCALE)
                           cy == handles_to_curve_abs_seconds(
                                     KnotGet(knotmaps[2], f), KnotGet(knotmaps[2], nxt),
                                     fps, kind, SCALE)
                       IN  IF cx # <<>> /\ cy # <<>> THEN cx \o cy ELSE <<>>

\* _emit_channel_timelines; fcurves is the list of the channels' keyframe
\* lists, the value transform of every channel is that of kind.  The result is
\* the list of records [time, _vals] with a field curve where one is tagged.
emit_channel_timelines(fcurves, fps, kind, SCALE) ==
    LET frames == SortInts(UNION {KnotFrames(fcurves[c]) : c \in 1..Len(fcurves)})
        knotmaps == [c \in 1..Len(fcurves) |-> knot_map_by_frame(fcurves[c])]
    IN  [idx \in 1..Len(frames) |->
            LET f == frames[idx]
                rec == [time |-> RoundSeconds6(scene_seconds(2 * f, fps)),
                        _vals |-> [c \in 1..Len(fcurves) |->
                                      ValueXform(kind, SCALE, Evaluate(fcurves[c], f))]]
                curve == CurveOf(fcurves, knotmaps, frames, idx, fps, kind, SCALE)
            IN  IF curve # <<>> THEN With(rec, "curve", curve) ELSE rec]

\* build_animations lines 161-176, 183-186, 204-213: the channels of one
\* property of one bone handed to _emit_channel_timelines, X before Y; <<>>
\* when the property is not exported.  action_fcurves lists the F-curves of
\* the property as [array_index, keyframe_points].
SelectChannels(kind, action_fcurves) ==
    LET Of(i) == SelectSeq(action_fcurves, LAMBDA fc : fc.array_index = i)
    IN  IF kind = "rotate"
        THEN [c \in 1..Len(Of(AxisXIndex(kind))) |-> Of(AxisXIndex(kind))[c].keyframe_points]
        ELSE IF Of(AxisXIndex(kind)) # <<>> /\ Of(AxisYIndex(kind)) # <<>>
             THEN <<Of(AxisXIndex(kind))[Len(Of(AxisXIndex(kind)))].keyframe_points,
                    Of(AxisYIndex(kind))[Len(Of(AxisYIndex(kind)))].keyframe_points>>
             ELSE <<>>

\* r without its field _vals
PopVals(r) == [f \in DOMAIN r \ {"_vals"} |-> r[f]]

\* the timeline with the records of zero rotation left out
TimelineDropZero(kind, keys) ==
    LET kept == SelectSeq(keys, LAMBDA k : kind # "rotate" \/ k._vals[1] # 0)
    IN  IF kept = <<>> THEN [present |-> FALSE, keys |-> <<>>]
        ELSE IF kind = "rotate"
        THEN [present |-> TRUE,
              keys |-> [i \in 1..Len(kept) |->
                           With(PopVals(kept[i]), "value", kept[i]._vals[1])]]
        ELSE [present |-> TRUE,
              keys |-> [i \in 1..Len(kept) |->
                           With(With(PopVals(kept[i]), "x", kept[i]._vals[1]),
                                "y", kept[i]._vals[2])]]

\* build_animations lines 177-182, 189-198, 216-221: the timeline of the
\* property made of the emitted keys, and whether it is written
Timeline(kind, keys) ==
    IF keys = <<>> THEN [present |-> FALSE, keys |-> <<>>]
    ELSE IF kind = "rotate"
    THEN [present |-> \E i \in 1..Len(keys) : keys[i]._vals[1] # 0,
          keys |-> [i \in 1..Len(keys) |->
                       IF keys[i]._vals[1] # 0
                       THEN With(PopVals(keys[i]), "value", keys[i]._vals[1])
                       ELSE PopVals(keys[i])]]
    ELSE [present |-> TRUE,
          keys |-> [i \in 1..Len(keys) |->
                       With(With(PopVals(keys[i]), "x", keys[i]._vals[1]),
                            "y", keys[i]._vals[2])]]

\* build_animations lines 165-228 for one property of one bone
PropertyTimeline(kind, action_fcurves, fps, SCALE) ==
    IF SelectChannels(kind, action_fcurves) = <<>>
    THEN [present |-> FALSE, keys |-> <<>>]
    ELSE Timeline(kind, emit_channel_timelines(SelectChannels(kind, action_fcurves),
                                               fps, kind, SCALE))

\* _fcurves_for_path: the F-curves of the action on one property of one bone;
\* an F-curve is [bone, kind, array_index, keyframe_points], bone and kind
\* being its data_path
fcurves_for_path(action, bname, kind) ==
    SelectSeq(action.fcurves, LAMBDA fc : fc.bone = bname /\ fc.kind = kind)

\* build_animations; action is <<>> for None, else <<[name, fcurves]>>.  The
\* result is <<>> for {} or the one animation: its name and, bone by bone,
\* the timelines of the three properties (present says which are written)
build_animations(all_bones, action, fps, SCALE) ==
    IF action = <<>> THEN <<>>
    ELSE <<[name |-> IF action[1].name = "" THEN "Action" ELSE action[1].name,
            bones |-> [i \in 1..Len(all_bones) |->
                [kind \in {"translate", "rotate", "scale"} |->
                    PropertyTimeline(kind,
                        fcurves_for_path(action[1], all_bones[i].name, kind),
                        fps, SCALE)]]]>>

(***************************************************************************)
(* SPINE_Output_exporter.py: the attachment block of export_now's mesh     *)
(* loop (lines 219-267) for a mesh without deform weights.                 *)
(***************************************************************************)
\* lines 221-223: the unweighted vertices stream [x0, y0, x1, y1, ...]
UnweightedVertices(region_xy) == PairsToFlat(region_xy)

\* the vertex-index edges written as they are, without encode_spine_edges
EdgesUnencoded(r, me_edges) ==
    LET vertex_count == Len(r.region_xy)
        clean0 == sanitize_vert_edges(
                      build_edges_from_tris_and_manual(
                          r.triangles, r.new_to_src, r.region_xy, me_edges,
                          "all", TRUE, TRUE, FALSE, "all"), vertex_count)
    IN  IF clean0 = <<>> /\ Len(r.hull_idx) >= 3
        THEN edges_perimeter_from_hull(r.hull_idx) ELSE clean0

\* lines 236-267: the edges written for one attachment (<<>>: none)
EdgesForSpine(r, me_edges) ==
    LET raw_edges_vert == build_edges_from_tris_and_manual(
                              r.triangles, r.new_to_src, r.region_xy, me_edges,
                              "all", TRUE, TRUE, FALSE, "all")
        vertex_count == Len(r.region_xy)
        clean0 == sanitize_vert_edges(raw_edges_vert, vertex_count)
        clean_vert == IF clean0 = <<>> /\ Len(r.hull_idx) >= 3
                      THEN edges_perimeter_from_hull(r.hull_idx) ELSE clean0
    IN  IF clean_vert # <<>> THEN encode_spine_edges(clean_vert, vertex_count) ELSE <<>>

AttachmentOf(slot_name, r, me_edges, EMIT_NONESSENTIAL, EDGES_MODE) ==
    LET base == [type |-> "mesh", name |-> slot_name, uvs |-> r.uvs,
                 triangles |-> r.triangles,
                 vertices |-> UnweightedVertices(r.region_xy)]
        edges_for_spine == EdgesForSpine(r, me_edges)
        hull == IF r.hull_idx # <<>> THEN Max2(3, Len(r.hull_idx)) ELSE Len(r.region_xy)
        withHull == [k \in DOMAIN base \cup {"hull"} |->
                        IF k = "hull" THEN hull ELSE base[k]]
        withEdges == [k \in DOMAIN withHull \cup {"edges"} |->
                        IF k = "edges" THEN edges_for_spine ELSE withHull[k]]
    IN  IF ~(EMIT_NONESSENTIAL /\ EDGES_MODE # "off") THEN base
        ELSE IF edges_for_spine # <<>> /\ Len(edges_for_spine) % 2 = 0 THEN withEdges
        ELSE withHull

(***************************************************************************)
(* SPINE_Output_exporter.py: the whole of export_now.                      *)
(* A bone is [name, parent, head, tail, use_deform].  A mesh object is     *)
(* [name, y, linked, parent_is_arm, parent_bone, vertex_groups, vertices,  *)
(* region_xy, uvs, new_to_src, triangles, me_edges, center_frame]: y is    *)
(* matrix_world.translation.y, linked says that armature_for_mesh finds    *)
(* the active armature, vertices lists v.groups of every source vertex,    *)
(* region_xy, uvs, new_to_src and triangles are what                       *)
(* build_region_vertices_uvs and remap_triangles_to_new make of the mesh,  *)
(* center_frame is the frame-space mean of its vertices.                   *)
(***************************************************************************)
RECURSIVE SumCoord(_, _)
SumCoord(region_xy, c) ==
    IF region_xy = <<>> THEN 0
    ELSE Head(region_xy)[c] + SumCoord(Tail(region_xy), c)

\* center_region_xy, for at least one point and a mean on the pixel grid
center_region_xy(region_xy) ==
    LET cx == SumCoord(region_xy, 1) \div Len(region_xy)
        cy == SumCoord(region_xy, 2) \div Len(region_xy)
    IN  [i \in 1..Len(region_xy) |-> <<region_xy[i][1] - cx, region_xy[i][2] - cy>>]

\* prepare_region from line 401 on, the rotation being 0
prepare_region(region_xy, uvs, new_to_src, triangles) ==
    hull_first_reorder(center_region_xy(region_xy), uvs, new_to_src, triangles)

\* mesh_has_deform_weights
mesh_has_deform_weights(vertices, vertex_groups, deform_names, weight_eps) ==
    /\ vertex_groups # <<>>
    /\ \E v \in 1..Len(vertices) : \E g \in 1..Len(vertices[v]) :
           /\ vertices[v][g].group \in 0..(Len(vertex_groups) - 1)
           /\ vertex_groups[vertices[v][g].group + 1] \in deform_names
           /\ vertices[v][g].weight > weight_eps

\* is_spine_weighted
is_spine_weighted(vertices_seq, uvs) == Len(vertices_seq) # Len(uvs)

\* the place of bn in bones_out counted from 1
SkelIdxFromOne(all_bones, bn) ==
    CHOOSE i \in 1..Len(all_bones) : all_bones[i].name = bn

\* bone_to_skel_idx[bn]: the 0-based place of bn in bones_out
SkelIdx(all_bones, bn) ==
    (CHOOSE i \in 1..Len(all_bones) : all_bones[i].name = bn) - 1

\* lines 180-181: the slot basis and the attachment center in it
SlotFrame(all_bones, slot_bone, center_frame, SCALE) ==
    LET sb == BoneNamed(all_bones, slot_bone)
        basis == basis_from_parent(sb.head, sb.tail)
    IN  [head |-> sb.head, basis |-> basis,
         att |-> project_to_basis_px(sb.head, basis, center_frame, SCALE)]

\* lines 198-204: the frame-space point pF of a region vertex minus the head
\* of bone b, times SCALE, as the pair of numerators over basis.L squared
PointFromBone(sf, b, v_reg, SCALE) ==
    LET L == sf.basis.L
        lx == v_reg[1] * L + sf.att.x
        ly == v_reg[2] * L + sf.att.y
        dx == sf.basis.x[1] * lx + sf.basis.y[1] * ly
        dz == sf.basis.x[2] * lx + sf.basis.y[2] * ly
    IN  <<(sf.head[1] - b.head[1]) * SCALE * L * L + dx, 0,
          (sf.head[3] - b.head[3]) * SCALE * L * L + dz>>

InfluenceEntryNoWeight(all_bones, sf, v_reg, bn, w, SCALE) ==
    <<SkelIdx(all_bones, bn)>>

\* lines 210-218: bone index, x, y (units of 1e-4 pixel) and weight (units of
\* 1e-6) of one influence
InfluenceEntry(all_bones, sf, v_reg, bn, w, SCALE) ==
    LET b == BoneNamed(all_bones, bn)
        basis == basis_from_parent(b.head, b.tail)
        l == project_to_basis_px(<<0, 0, 0>>, basis,
                                 PointFromBone(sf, b, v_reg, SCALE), 1)
        den == l.den * sf.basis.L * sf.basis.L
    IN  <<SkelIdx(all_bones, bn), Round4Of(l.x, den), Round4Of(l.y, den),
          RoundDiv(w[1] * 1000000, w[2])>>

RECURSIVE InfluenceEntries(_, _, _, _, _, _)
InfluenceEntries(all_bones, sf, v_reg, infl, fb, SCALE) ==
    IF infl = <<>> THEN <<>>
    ELSE LET bn == IF Head(infl)[1] \in BoneNameSet(all_bones) THEN Head(infl)[1] ELSE fb
         IN  InfluenceEntry(all_bones, sf, v_reg, bn, Head(infl)[2], SCALE)
             \o InfluenceEntries(all_bones, sf, v_reg, Tail(infl), fb, SCALE)

\* lines 196-218: the weighted vertices stream
RECURSIVE WeightedVertices(_, _, _, _, _, _, _)
WeightedVertices(all_bones, sf, r, new_i, vgroups_for_vert, fb, SCALE) ==
    IF new_i > Len(r.new_to_src) THEN <<>>
    ELSE LET src_vi == r.new_to_src[new_i][1]
             infl == IF src_vi + 1 \in DOMAIN vgroups_for_vert
                        /\ vgroups_for_vert[src_vi + 1] # <<>>
                     THEN vgroups_for_vert[src_vi + 1] ELSE <<<<fb, <<1, 1>>>>>>
         IN  <<Len(infl)>>
             \o InfluenceEntries(all_bones, sf, r.region_xy[new_i], infl, fb, SCALE)
             \o WeightedVertices(all_bones, sf, r, new_i + 1, vgroups_for_vert, fb, SCALE)

\* lines 183-223: vertices_seq of the mesh o with region r and slot bone
\* slot_bone; cfg holds the configured constants
VerticesSeq(o, r, slot_bone, all_bones, cfg) ==
    LET deform_names == DeformNames(all_bones)
        fb0 == first_nonroot_deform_child(all_bones, deform_names)
        fb == IF fb0 # <<>> THEN fb0[1] ELSE slot_bone
    IN  IF mesh_has_deform_weights(o.vertices, o.vertex_groups, deform_names, cfg.WEIGHT_EPS)
        THEN WeightedVertices(all_bones,
                 SlotFrame(all_bones, slot_bone, o.center_frame, cfg.SCALE), r, 1,
                 build_vertex_influences(o.vertices, o.vertex_groups, deform_names,
                                         cfg.WEIGHT_EPS, cfg.MAX_INFLUENCES, fb),
                 fb, cfg.SCALE)
        ELSE UnweightedVertices(r.region_xy)

\* lines 225-267: the attachment block
ExportAttachment(o, r, slot_bone, all_bones, cfg) ==
    [AttachmentOf(o.name, r, o.me_edges, cfg.EMIT_NONESSENTIAL, cfg.EDGES_MODE)
        EXCEPT !.vertices = VerticesSeq(o, r, slot_bone, all_bones, cfg)]

(***************************************************************************)
(* Inputs.                                                                 *)
(***************************************************************************)
NoRegion == [region_xy |-> <<>>, uvs |-> <<>>, new_to_src |-> <<>>,
             triangles |-> <<>>, hull_idx |-> <<>>]

NoAtt == [type |-> "none"]

\* nothing written yet: out_log and out_json hold the texts written to them,
\* one entry per write_text
NoFiles == [out_log |-> <<>>, out_json |-> <<>>]

\* export_now's locals before the export body runs
NoLocals == [meshes |-> <<>>, k |-> 0, bones_out |-> <<>>, slots_out |-> <<>>,
             skin_atts |-> <<>>, animations_out |-> <<>>, ex |-> ""]

\* triangles over the indices 0..n-1 with three distinct corners, the smallest
\* first, in both orientations
TrianglesOver(n) ==
    {t \in (0..(n - 1)) \X (0..(n - 1)) \X (0..(n - 1)) :
         t[1] < t[2] /\ t[1] < t[3] /\ t[2] # t[3]}

\* the loop triangles of a mesh of n region points: a mesh that has loops has
\* faces, hence a loop triangle; none when there are fewer than 3 points
SourceTriCases(n) ==
    IF n < 3 THEN {<<>>}
    ELSE {<<0, 1, 2>>, <<0, 2, 1>>, <<n - 3, n - 1, n - 2>>, <<n - 1, 0, 1>>}

RECURSIVE FlatTris(_)
FlatTris(ts) ==
    IF ts = <<>> THEN <<>>
    ELSE <<Head(ts)[1], Head(ts)[2], Head(ts)[3]>> \o FlatTris(Tail(ts))

TriLists(n, k) == {FlatTris(ts) : ts \in SeqsUpTo(TrianglesOver(n), k)}

\* new_to_src of a region of n NEW indices: every source vertex once, or every
\* source vertex split in two by a UV seam
IdentitySrc(n) == [i \in 1..n |-> <<i - 1, i - 1>>]

SplitSrc(n) == [i \in 1..n |-> <<(i - 1) \div 2, i - 1>>]

\* me.edges: Blender edges join two distinct source vertices
MeshEdgesOver(nsrc) ==
    {e \in [vertices : (0..(nsrc - 1)) \X (0..(nsrc - 1)),
            use_seam : BOOLEAN, use_edge_sharp : BOOLEAN] :
         e.vertices[1] # e.vertices[2] /\ ~(e.use_seam /\ e.use_edge_sharp)}

GridCoords == {0, 1, 2}

Grid == GridCoords \X GridCoords

\* region points of the meshes export_now is run on (centered: mean zero);
\* center_region_xy divides by their number, so there is at least one
MeshCases ==
    { << <<0, 0>> >>,
      << <<-1, 0>>, <<1, 0>> >>,
      << <<-1, -1>>, <<2, -1>>, <<-1, 2>> >>,
      << <<-1, -1>>, <<-1, 2>>, <<2, -1>> >>,
      << <<0, 0>>, <<0, 0>>, <<0, 0>> >>,
      << <<-1, -1>>, <<1, -1>>, <<1, 1>>, <<-1, 1>> >>,
      << <<-1, -1>>, <<1, 1>>, <<1, -1>>, <<-1, 1>> >>,
      << <<-3, 0>>, <<-1, 0>>, <<1, 0>>, <<3, 0>> >>,
      << <<0, 0>>, <<-1, -1>>, <<1, -1>>, <<1, 1>>, <<-1, 1>> >> }

\* (source vertex, region point) is unique per NEW index: the dedup key
KeysUnique(pts, n2s) ==
    \A i, j \in 1..Len(pts) : (pts[i] = pts[j] /\ n2s[i][1] = n2s[j][1]) => i = j

(***************************************************************************)
(* Calls of the pure edge functions.                                       *)
(***************************************************************************)
InitEncode ==
    /\ pc = "call" /\ fn = "encode_spine_edges"
    /\ args \in [keep_edges_new : SeqsUpTo(-1..MaxV, MaxFlat), vertex_count : 0..MaxV]
    /\ ret = <<>> /\ region = NoRegion /\ att = NoAtt /\ LOG = <<>>
    /\ fs = NoFiles /\ local = NoLocals

CallEncodeSpineEdges ==
    /\ pc = "call" /\ fn = "encode_spine_edges"
    /\ ret' = encode_spine_edges(args.keep_edges_new, args.vertex_count)
    /\ pc' = "return"
    /\ UNCHANGED <<fn, args, region, att, LOG, fs, local>>

\* the arguments of one call, with the defaults of the signature
BuildEdgesArgs(n, tl, n2s, me, md, cfg) ==
    [triangles |-> tl, new_to_src |-> n2s, region_xy |-> [i \in 1..n |-> <<0, 0>>],
     me_edges |-> me, mode |-> md, use_seams |-> TRUE, use_sharp |-> TRUE,
     include_boundary |-> TRUE, cfg_edges_mode |-> cfg]

\* mode and configured default: mode None falls back on the configuration
ModeCases ==
    {<<"boundary", "mixed">>, <<"manual", "mixed">>, <<"mixed", "mixed">>,
     <<"all", "mixed">>, <<"None", "boundary">>, <<"None", "off">>}

InitBuildEdges ==
    /\ pc = "call" /\ fn = "build_edges_from_tris_and_manual"
    /\ \E n \in 0..MaxV :
       \E mc \in ModeCases :
          \* many triangles and no mesh edges, or at most one triangle and
          \* mesh edges over split or unsplit source vertices
          \/ \E tl \in TriLists(n, MaxTris) :
                 args = BuildEdgesArgs(n, tl, IdentitySrc(n), <<>>, mc[1], mc[2])
          \/ \E tl \in TriLists(n, 1) :
             \E n2s \in {IdentitySrc(n), SplitSrc(n)} :
             \E me \in SeqsUpTo(MeshEdgesOver(n), MaxMeshEdges) :
                 /\ Len(tl) = 3 => tl \in {<<0, 1, 2>>, <<0, 2, 1>>}
                 /\ args = BuildEdgesArgs(n, tl, n2s, me, mc[1], mc[2])
    /\ ret = <<>> /\ region = NoRegion /\ att = NoAtt /\ LOG = <<>>
    /\ fs = NoFiles /\ local = NoLocals

CallBuildEdges ==
    /\ pc = "call" /\ fn = "build_edges_from_tris_and_manual"
    /\ ret' = build_edges_from_tris_and_manual(
                  args.triangles, args.new_to_src, args.region_xy, args.me_edges,
                  args.mode, args.use_seams, args.use_sharp, args.include_boundary,
                  args.cfg_edges_mode)
    /\ pc' = "return"
    /\ UNCHANGED <<fn, args, region, att, LOG, fs, local>>

\* calls of sanitize_vert_edges and of sanitize_edges (_sanitize_pairs) on
\* flat lists of any length with values in and out of range
InitSanitize ==
    /\ pc = "call" /\ fn \in {"sanitize_vert_edges", "sanitize_edges"}
    /\ args \in [edges : SeqsUpTo(-1..MaxV, MaxFlat), vcount : 0..MaxV]
    /\ ret = <<>> /\ region = NoRegion /\ att = NoAtt /\ LOG = <<>>
    /\ fs = NoFiles /\ local = NoLocals

CallSanitize ==
    /\ pc = "call" /\ fn \in {"sanitize_vert_edges", "sanitize_edges"}
    /\ ret' = IF fn = "sanitize_vert_edges"
              THEN sanitize_vert_edges(args.edges, args.vcount)
              ELSE sanitize_edges(args.edges, args.vcount)
    /\ pc' = "return"
    /\ UNCHANGED <<fn, args, region, att, LOG, fs, local>>

(***************************************************************************)
(* export_now: one pass of the mesh loop (lines 124-277).                  *)
(***************************************************************************)
InitMesh ==
    /\ pc = "prepare_region" /\ fn = "export_now"
    /\ \E pts \in MeshCases :
       \E tl \in SourceTriCases(Len(pts)) :
       \E n2s \in {IdentitySrc(Len(pts)), SplitSrc(Len(pts))} :
       \E me \in SeqsUpTo(MeshEdgesOver(Len(pts)), MaxMeshEdges) :
       \E emit \in BOOLEAN :
       \E mode \in {"all", "off"} :
           /\ KeysUnique(pts, n2s)
           /\ \A k \in 1..Len(me) : ~me[k].use_seam /\ ~me[k].use_edge_sharp
           /\ args = [name |-> "mesh", region_xy_centered |-> pts,
                      uvs |-> PairsToFlat(pts), new_to_src |-> n2s,
                      triangles |-> tl, me_edges |-> me,
                      EMIT_NONESSENTIAL |-> emit, EDGES_MODE |-> mode]
    /\ ret = <<>> /\ region = NoRegion /\ att = NoAtt /\ LOG = <<>>
    /\ fs = NoFiles /\ local = NoLocals

\* line 163: prepare_region (its last step, the hull-first reorder)
PrepareRegion ==
    /\ pc = "prepare_region"
    /\ region' = hull_first_reorder(args.region_xy_centered, args.uvs,
                                    args.new_to_src, args.triangles)
    /\ pc' = "attachment"
    /\ UNCHANGED <<fn, args, ret, att, LOG, fs, local>>

\* lines 219-267: the attachment and its edges
BuildAttachment ==
    /\ pc = "attachment"
    /\ att' = AttachmentOf(args.name, region, args.me_edges,
                           args.EMIT_NONESSENTIAL, args.EDGES_MODE)
    /\ pc' = "validate"
    /\ UNCHANGED <<fn, args, ret, region, LOG, fs, local>>

\* lines 269-277: validate, log, keep the attachment either way
ValidateAttachment ==
    /\ pc = "validate"
    /\ ret' = validate_attachment_edges(att)
    /\ LOG' = Append(LOG, IF validate_attachment_edges(att) = "ok"
                          THEN <<"[OK]", args.name>>
                          ELSE <<"[EdgeValidation][ERROR]", args.name>>)
    /\ pc' = "done"
    /\ UNCHANGED <<fn, args, region, att, fs, local>>

Init == InitEncode \/ InitBuildEdges \/ InitSanitize \/ InitMesh

Next ==
    \/ CallEncodeSpineEdges
    \/ CallBuildEdges
    \/ CallSanitize
    \/ PrepareRegion
    \/ BuildAttachment
    \/ ValidateAttachment

Spec == Init /\ [][Next]_vars

(***************************************************************************)
(* Calls of hull_first_reorder (the last step of prepare_region).          *)
(***************************************************************************)
InitRegion ==
    /\ pc = "call" /\ fn = "hull_first_reorder"
    /\ \E pts \in SeqsUpTo(Grid, MaxPts) :
       \E tl \in SourceTriCases(Len(pts)) :
           /\ args = [region_xy_centered |-> pts, uvs |-> PairsToFlat(pts),
                      new_to_src |-> IdentitySrc(Len(pts)), triangles |-> tl]
    /\ ret = <<>> /\ region = NoRegion /\ att = NoAtt /\ LOG = <<>>
    /\ fs = NoFiles /\ local = NoLocals

CallHullFirstReorder ==
    /\ pc = "call" /\ fn = "hull_first_reorder"
    /\ ret' = hull_first_reorder(args.region_xy_centered, args.uvs,
                                 args.new_to_src, args.triangles)
    /\ pc' = "return"
    /\ UNCHANGED <<fn, args, region, att, LOG, fs, local>>

NextRegion == CallHullFirstReorder

SpecRegion == InitRegion /\ [][NextRegion]_vars

(***************************************************************************)
(* Calls of build_region_vertices_uvs.                                     *)
(***************************************************************************)
\* uv.x and uv.y of the loops, in units of 1e-7: values on both sides of a
\* rounding boundary (6 and 14 round to the same value), and the tie 5
UvXValues == {4, 6}

UvYValues == {5, 6, 14}

InitDedup ==
    /\ pc = "call" /\ fn = "build_region_vertices_uvs"
    /\ \E loops \in SeqsUpTo(0..1, MaxLoops) :
       \E uvd \in SeqsUpTo(UvXValues \X UvYValues, MaxLoops) :
       \E has \in BOOLEAN :
           \* the layer holds a uv for every loop, or for all but the last, or
           \* there is no layer
           /\ IF has THEN Len(uvd) \in {Len(loops), Len(loops) - 1} ELSE uvd = <<>>
           /\ args = [loops |-> loops, has_uv_layer |-> has, uv_data |-> uvd,
                      img_w |-> 100, img_h |-> 100]
    /\ ret = <<>> /\ region = NoRegion /\ att = NoAtt /\ LOG = <<>>
    /\ fs = NoFiles /\ local = NoLocals

CallBuildRegionVerticesUvs ==
    /\ pc = "call" /\ fn = "build_region_vertices_uvs"
    /\ ret' = build_region_vertices_uvs(args.loops, args.has_uv_layer, args.uv_data,
                                        args.img_w, args.img_h)
    /\ pc' = "return"
    /\ UNCHANGED <<fn, args, region, att, LOG, fs, local>>

NextDedup == CallBuildRegionVerticesUvs

SpecDedup == InitDedup /\ [][NextDedup]_vars

(***************************************************************************)
(* Calls of build_vertex_influences.                                       *)
(***************************************************************************)
\* obj.vertex_groups: two deform groups and one that belongs to no bone; the
\* fallback bone (the slot bone) is a bone with or without a group of its own
VertexGroupNames == <<"arm", "hand", "pin">>

\* v.groups of one vertex: memberships in distinct groups
GroupLists ==
    {gs \in SeqsUpTo([group : 0..(Len(VertexGroupNames) - 1), weight : 0..MaxWeight],
                     MaxGroups) :
        \A i, j \in 1..Len(gs) : i # j => gs[i].group # gs[j].group}

InitWeights ==
    /\ pc = "call" /\ fn = "build_vertex_influences"
    /\ \E gs \in GroupLists : \E more \in BOOLEAN :
       \E eps \in 0..1 : \E mx \in 0..MaxInfl :
       \E deform \in {{"arm", "hand"}, {"hand"}} :
       \E fb \in {"root", "hand"} :
           args = [vertices |-> IF more THEN <<gs, <<>>>> ELSE <<gs>>,
                   vertex_groups |-> VertexGroupNames,
                   deform_names |-> deform,
                   weight_eps |-> eps, max_influences |-> mx,
                   fallback_bone |-> fb]
    /\ ret = <<>> /\ region = NoRegion /\ att = NoAtt /\ LOG = <<>>
    /\ fs = NoFiles /\ local = NoLocals

CallBuildVertexInfluences ==
    /\ pc = "call" /\ fn = "build_vertex_influences"
    /\ ret' = build_vertex_influences(args.vertices, args.vertex_groups,
                  args.deform_names, args.weight_eps, args.max_influences,
                  args.fallback_bone)
    /\ pc' = "return"
    /\ UNCHANGED <<fn, args, region, att, LOG, fs, local>>

NextWeights == CallBuildVertexInfluences

SpecWeights == InitWeights /\ [][NextWeights]_vars

(***************************************************************************)
(* Calls of pick_slot_bone_for_object.                                     *)
(***************************************************************************)
SlotBoneNames == {"Root", "body", "arm"}

\* armatures of n bones with distinct names; a bone hangs under an earlier
\* bone or under none, and deforms or not
RECURSIVE SlotArmatures(_)
SlotArmatures(n) ==
    IF n = 0 THEN {<<>>}
    ELSE {Append(bs, [name |-> nm, parent |-> p, use_deform |-> d]) :
             bs \in SlotArmatures(n - 1), nm \in SlotBoneNames,
             p \in SlotBoneNames \cup {""}, d \in BOOLEAN}

WellFormedArmature(bs) ==
    \A i \in 1..Len(bs) :
        /\ \A j \in 1..(i - 1) : bs[j].name # bs[i].name
        /\ bs[i].parent # "" => \E j \in 1..(i - 1) : bs[j].name = bs[i].parent

\* obj.vertex_groups of the meshes modelled
SlotVertexGroups == <<"arm", "body", "pin">>

\* v.groups of one vertex
SlotGroupLists ==
    {<<>>, <<[group |-> 0, weight |-> 1]>>, <<[group |-> 1, weight |-> 1]>>,
     <<[group |-> 0, weight |-> 0]>>,
     <<[group |-> 1, weight |-> 1], [group |-> 0, weight |-> 1]>>}

InitSlot ==
    /\ pc = "call" /\ fn = "pick_slot_bone_for_object"
    /\ \E n \in 1..MaxBones : \E bs \in SlotArmatures(n) :
       \E vs \in SeqsUpTo(SlotGroupLists, 2) :
       \E direct \in BOOLEAN : \E pb \in {"", bs[1].name} :
           /\ WellFormedArmature(bs)
           /\ args = [obj |-> [parent_is_arm |-> direct, parent_bone |-> pb,
                               vertices |-> vs, vertex_groups |-> SlotVertexGroups],
                      bone_to_skel_idx |-> BoneNameSet(bs),
                      all_bones |-> bs, deform_names |-> DeformNames(bs)]
    /\ ret = <<>> /\ region = NoRegion /\ att = NoAtt /\ LOG = <<>>
    /\ fs = NoFiles /\ local = NoLocals

CallPickSlotBone ==
    /\ pc = "call" /\ fn = "pick_slot_bone_for_object"
    /\ ret' = pick_slot_bone_for_object(args.obj, args.bone_to_skel_idx,
                                        args.all_bones, args.deform_names)
    /\ pc' = "return"
    /\ UNCHANGED <<fn, args, region, att, LOG, fs, local>>

NextSlot == CallPickSlotBone

SpecSlot == InitSlot /\ [][NextSlot]_vars

(***************************************************************************)
(* The bone block of export_now on small armatures.                        *)
(***************************************************************************)
BoneNames == <<"root", "arm", "hand", "tip">>

\* frame-space heads
BoneHeads == {<<0, 0, 0>>, <<2, 0, 1>>, <<1, 1, 0>>}

\* tail - head: no length, the four axis directions, the two 3-4-5 directions
BoneDirs == {<<0, 0, 0>>, <<1, 0, 0>>, <<0, 0, 1>>, <<-1, 0, 0>>, <<0, 0, -1>>,
             <<3, 0, 4>>, <<-4, 0, 3>>}

\* the bones that can stand at place i of an armature: bone i is called
\* BoneNames[i] and hangs under an earlier bone or under none
BonesAt(i) ==
    {[name |-> BoneNames[i], parent |-> p, head |-> h,
      tail |-> <<h[1] + d[1], h[2] + d[2], h[3] + d[3]>>] :
        p \in {BoneNames[j] : j \in 1..(i - 1)} \cup {""},
        h \in BoneHeads, d \in BoneDirs}

\* armatures of n bones
RECURSIVE Armatures(_)
Armatures(n) ==
    IF n = 0 THEN {<<>>}
    ELSE {Append(bs, b) : bs \in Armatures(n - 1), b \in BonesAt(n)}

InitBones ==
    /\ pc = "bones" /\ fn = "export_now"
    /\ \E n \in 1..MaxBones : \E bs \in Armatures(n) :
       \E scale \in {1, 100} : \E tol \in {1 * Deg, 40 * Deg} : \E rr \in {0, 90 * Deg} :
           args = [all_bones |-> bs, SCALE |-> scale,
                   ROOT_ROTATION_DEG |-> rr, VERTICAL_TOL_DEG |-> tol]
    /\ ret = <<>> /\ region = NoRegion /\ att = NoAtt /\ LOG = <<>>
    /\ fs = NoFiles /\ local = NoLocals

EmitBonesStep ==
    /\ pc = "bones" /\ fn = "export_now"
    /\ ret' = EmitBones(args.all_bones, args.SCALE, args.ROOT_ROTATION_DEG,
                        args.VERTICAL_TOL_DEG)
    /\ pc' = "bones_out"
    /\ UNCHANGED <<fn, args, region, att, LOG, fs, local>>

NextBones == EmitBonesStep

SpecBones == InitBones /\ [][NextBones]_vars

(***************************************************************************)
(* build_animations on one property of one bone.                           *)
(***************************************************************************)
\* keyframe frames in half frames: 0, 0.5, 1, 1.5 and 24
HalfFrames == {0, 1, 2, 3, 48}

\* keyframe frames of the two-channel properties: 0, 1 and 1.5
PairHalfFrames == {0, 2, 3}

\* the raw value 10 of a property
RawTen(kind) ==
    CASE kind = "translate" -> 1000000
      [] kind = "rotate" -> 1000
      [] kind = "scale" -> 100000000

\* a keyframe at h with value v; its handles lie d half frames to either side
Keyframe(h, v, interp, d) ==
    [co |-> <<h, v>>, interpolation |-> interp,
     handle_left |-> <<h - d, v - 14 * d>>,
     handle_right |-> <<h + d, v + 6 * d>>]

Interpolations == {"BEZIER", "CONSTANT", "LINEAR"}

\* keyframe lists of at most n keyframes at strictly increasing frames
KeyframeLists(frames, values, interps, spreads, n) ==
    {kps \in SeqsUpTo({Keyframe(h, v, ip, d) : h \in frames, v \in values,
                          ip \in interps, d \in spreads}, n) :
        \A i \in 1..(Len(kps) - 1) : kps[i].co[1] < kps[i + 1].co[1]}

InitAnimArgs(kind, action_fcurves, scale) ==
    /\ pc = "emit" /\ fn = "build_animations"
    /\ args = [kind |-> kind, action_fcurves |-> action_fcurves, fps |-> 24,
               SCALE |-> scale]
    /\ ret = <<>> /\ region = NoRegion /\ att = NoAtt /\ LOG = <<>>
    /\ fs = NoFiles /\ local = NoLocals

InitAnim ==
    \/ \E kps \in KeyframeLists(HalfFrames, {0, 16, RawTen("rotate")}, Interpolations, {1, 3}, MaxKeys) :
           InitAnimArgs("rotate", <<[array_index |-> 2, keyframe_points |-> kps]>>, 100)
    \/ \E kind \in {"translate", "scale"} :
       \E kx \in KeyframeLists(PairHalfFrames, {0, 16}, Interpolations, {1}, MaxKeys) :
       \E ky \in KeyframeLists(PairHalfFrames, {0, 16}, {"BEZIER", "CONSTANT"}, {1}, MaxKeys) :
       \E scale \in {1, 100} :
           /\ kind = "scale" => scale = 100
           /\ LET fx == [array_index |-> AxisXIndex(kind), keyframe_points |-> kx]
                  fy == [array_index |-> AxisYIndex(kind), keyframe_points |-> ky]
              IN  InitAnimArgs(kind, IF fx.array_index < fy.array_index
                                     THEN <<fx, fy>> ELSE <<fy, fx>>, scale)
    \/ \E kind \in {"translate", "rotate", "scale"} :
       \E kps \in KeyframeLists({0}, {16}, {"BEZIER"}, {1}, 1) :
           InitAnimArgs(kind, IF kps = <<>> THEN <<>>
                              ELSE <<[array_index |-> 0, keyframe_points |-> kps]>>, 100)

EmitChannelTimelines ==
    /\ pc = "emit" /\ fn = "build_animations"
    /\ SelectChannels(args.kind, args.action_fcurves) # <<>>
    /\ ret' = emit_channel_timelines(SelectChannels(args.kind, args.action_fcurves),
                                     args.fps, args.kind, args.SCALE)
    /\ pc' = "keys"
    /\ UNCHANGED <<fn, args, region, att, LOG, fs, local>>

SkipProperty ==
    /\ pc = "emit" /\ fn = "build_animations"
    /\ SelectChannels(args.kind, args.action_fcurves) = <<>>
    /\ ret' = [present |-> FALSE, keys |-> <<>>]
    /\ pc' = "done"
    /\ UNCHANGED <<fn, args, region, att, LOG, fs, local>>

WriteTimeline ==
    /\ pc = "keys" /\ fn = "build_animations"
    /\ ret' = Timeline(args.kind, ret)
    /\ pc' = "done"
    /\ UNCHANGED <<fn, args, region, att, LOG, fs, local>>

NextAnim == EmitChannelTimelines \/ SkipProperty \/ WriteTimeline

SpecAnim == InitAnim /\ [][NextAnim]_vars

(***************************************************************************)
(* export_now from its first line to its return or raise.                  *)
(***************************************************************************)
\* the armature of the scene: a root that does not deform with a deforming
\* child, or a deforming root with a deforming child along a 3-4-5 direction
ExportArmatures ==
    { <<[name |-> "root", parent |-> "", head |-> <<0, 0, 0>>, tail |-> <<1, 0, 0>>,
         use_deform |-> FALSE],
        [name |-> "arm", parent |-> "root", head |-> <<2, 0, 1>>, tail |-> <<2, 0, 2>>,
         use_deform |-> TRUE]>>,
      <<[name |-> "arm", parent |-> "", head |-> <<0, 0, 0>>, tail |-> <<3, 0, 4>>,
         use_deform |-> TRUE],
        [name |-> "hand", parent |-> "arm", head |-> <<3, 0, 4>>, tail |-> <<-1, 0, 7>>,
         use_deform |-> TRUE]>> }

\* the mesh objects of the scene, by name: a triangle without vertex groups
\* and with its three edges; a quad without mesh edges whose vertices carry
\* one, two, three and no weights; a triangle split by a UV seam whose only
\* weight is 0; a mesh without loops
ExportMeshShapes ==
    { [name |-> "tri", vertex_groups |-> <<>>, vertices |-> << <<>>, <<>>, <<>> >>,
       region_xy |-> << <<0, 0>>, <<3, 0>>, <<0, 3>> >>,
       new_to_src |-> IdentitySrc(3), triangles |-> <<0, 2, 1>>,
       me_edges |-> <<[vertices |-> <<0, 1>>, use_seam |-> FALSE, use_edge_sharp |-> FALSE],
                      [vertices |-> <<1, 2>>, use_seam |-> FALSE, use_edge_sharp |-> FALSE],
                      [vertices |-> <<2, 0>>, use_seam |-> FALSE, use_edge_sharp |-> FALSE]>>],
      [name |-> "quad", vertex_groups |-> <<"arm", "hand", "pin">>,
       vertices |-> << <<[group |-> 0, weight |-> 2]>>,
                       <<[group |-> 0, weight |-> 1], [group |-> 1, weight |-> 3]>>,
                       <<[group |-> 0, weight |-> 1], [group |-> 1, weight |-> 2],
                         [group |-> 2, weight |-> 3]>>,
                       <<>> >>,
       region_xy |-> << <<0, 0>>, <<2, 2>>, <<2, 0>>, <<0, 2>> >>,
       new_to_src |-> IdentitySrc(4), triangles |-> <<0, 2, 1, 0, 1, 3>>,
       me_edges |-> <<>>],
      [name |-> "seam", vertex_groups |-> <<"arm">>,
       vertices |-> << <<[group |-> 0, weight |-> 0]>>, <<>> >>,
       region_xy |-> << <<0, 0>>, <<3, 0>>, <<0, 3>> >>,
       new_to_src |-> SplitSrc(3), triangles |-> <<0, 1, 2>>,
       me_edges |-> <<[vertices |-> <<0, 1>>, use_seam |-> TRUE, use_edge_sharp |-> FALSE]>>],
      [name |-> "void", vertex_groups |-> <<"arm">>,
       vertices |-> << <<[group |-> 0, weight |-> 1]>> >>,
       region_xy |-> <<>>, new_to_src |-> <<>>, triangles |-> <<>>,
       me_edges |-> <<>>] }

\* a shape placed in the scene
MeshObject(shape, y, linked, direct) ==
    [f \in DOMAIN shape \cup {"y", "linked", "parent_is_arm", "parent_bone",
                               "uvs", "center_frame"} |->
        CASE f = "y" -> y
          [] f = "linked" -> linked
          [] f = "parent_is_arm" -> direct
          [] f = "parent_bone" -> ""
          [] f = "uvs" -> PairsToFlat(shape.region_xy)
          [] f = "center_frame" -> <<1, y, 1>>
          [] OTHER -> shape[f]]

MeshObjects ==
    {MeshObject(shape, y, linked, direct) :
        shape \in ExportMeshShapes, y \in {0, 1}, linked \in BOOLEAN, direct \in BOOLEAN}

\* the scene objects of type MESH, of distinct names; a mesh parented to
\* the armature object is linked to it; the location of a mesh that is not
\* linked is never read, so one location stands for all
Scenes ==
    {os \in SeqsUpTo(MeshObjects, MaxMeshes) :
        /\ \A i, j \in 1..Len(os) : i # j => os[i].name # os[j].name
        /\ \A i \in 1..Len(os) : os[i].parent_is_arm => os[i].linked
        /\ \A i \in 1..Len(os) : ~os[i].linked => os[i].y = 0}

\* an action with one rotation F-curve on the bone "arm"
ExportActions ==
    { <<>>,
      <<[name |-> "", fcurves |->
            <<[bone |-> "arm", kind |-> "rotate", array_index |-> 2,
               keyframe_points |-> <<Keyframe(0, 0, "BEZIER", 1),
                                     Keyframe(48, RawTen("rotate"), "BEZIER", 1)>>]>>]>> }

InitExport ==
    /\ pc = "log_start" /\ fn = "export_now"
    /\ \E found \in BOOLEAN : \E bs \in ExportArmatures : \E os \in Scenes :
       \E mx \in 0..MaxInfl : \E writable \in BOOLEAN : \E action \in ExportActions :
       \E emit \in BOOLEAN :
           /\ ~found => (bs = CHOOSE b \in ExportArmatures : TRUE) /\ action = <<>>
           /\ args = [arm |-> IF found THEN <<[all_bones |-> bs, action |-> action]>>
                              ELSE <<>>,
                      scene_objects |-> os,
                      cfg |-> [SCALE |-> 100, ROOT_ROTATION_DEG |-> 0,
                               VERTICAL_TOL_DEG |-> 1 * Deg, WEIGHT_EPS |-> 0,
                               MAX_INFLUENCES |-> mx, EMIT_NONESSENTIAL |-> emit,
                               EDGES_MODE |-> "all"],
                      fps |-> 24, json_writable |-> writable]
    /\ ret = <<>> /\ region = NoRegion /\ att = NoAtt /\ LOG = <<>>
    /\ fs = NoFiles /\ local = NoLocals

\* raise inside the try block: control goes to the except clause
Raise(ex) ==
    /\ pc' = "except"
    /\ local' = [local EXCEPT !.ex = ex]

\* lines 56-63
StartLog ==
    /\ pc = "log_start" /\ fn = "export_now"
    /\ LOG' = <<"=== Spine Export Start ===", "Blend", "OCA dir", "JSON out">>
    /\ pc' = "active_armature"
    /\ UNCHANGED <<fn, args, ret, region, att, fs, local>>

\* lines 66-68
FindArmature ==
    /\ pc = "active_armature"
    /\ IF args.arm = <<>> THEN Raise("No armature found.")
       ELSE pc' = "meshes" /\ UNCHANGED local
    /\ UNCHANGED <<fn, args, ret, region, att, LOG, fs>>

\* the place of a mesh name in alphabetical order
NameRank(name) ==
    CASE name = "quad" -> 1 [] name = "seam" -> 2 [] name = "tri" -> 3 [] name = "void" -> 4

\* line 75: sort by (y, name), reverse=True
MeshBefore(a, b) == a.y > b.y \/ (a.y = b.y /\ NameRank(a.name) > NameRank(b.name))

RECURSIVE SortMeshes(_)
SortMeshes(meshes) ==
    IF meshes = <<>> THEN <<>>
    ELSE LET first == CHOOSE i \in 1..Len(meshes) :
                          \A j \in 1..Len(meshes) : j = i \/ MeshBefore(meshes[i], meshes[j])
         IN  <<meshes[first]>>
             \o SortMeshes([k \in 1..(Len(meshes) - 1) |->
                               IF k < first THEN meshes[k] ELSE meshes[k + 1]])

FindMeshesAnyMesh ==
    /\ pc = "meshes"
    /\ LET meshes == args.scene_objects
       IN  IF meshes = <<>>
           THEN Raise("No meshes linked to active armature.") /\ UNCHANGED LOG
           ELSE /\ local' = [local EXCEPT !.meshes = SortMeshes(meshes)]
                /\ LOG' = Append(LOG, <<"[SpineExport] Rig scale", args.cfg.SCALE>>)
                /\ pc' = "emit_bones"
    /\ UNCHANGED <<fn, args, ret, region, att, fs>>

\* lines 70-78
FindMeshes ==
    /\ pc = "meshes"
    /\ LET meshes == SelectSeq(args.scene_objects, LAMBDA o : o.linked)
       IN  IF meshes = <<>>
           THEN Raise("No meshes linked to active armature.") /\ UNCHANGED LOG
           ELSE /\ local' = [local EXCEPT !.meshes = SortMeshes(meshes)]
                /\ LOG' = Append(LOG, <<"[SpineExport] Rig scale", args.cfg.SCALE>>)
                /\ pc' = "emit_bones"
    /\ UNCHANGED <<fn, args, ret, region, att, fs>>

\* the bone without use_deform, as the bone block reads it
BoneGeometry(b) == [name |-> b.name, parent |-> b.parent, head |-> b.head, tail |-> b.tail]

\* lines 80-121
EmitBonesOfExport ==
    /\ pc = "emit_bones"
    /\ local' = [local EXCEPT
                    !.bones_out = EmitBones([i \in 1..Len(args.arm[1].all_bones) |->
                                                BoneGeometry(args.arm[1].all_bones[i])],
                                            args.cfg.SCALE, args.cfg.ROOT_ROTATION_DEG,
                                            args.cfg.VERTICAL_TOL_DEG),
                    !.k = 1]
    /\ pc' = "mesh_slot"
    /\ UNCHANGED <<fn, args, ret, region, att, LOG, fs>>

\* the mesh of the running pass of the loop of line 124
CurrentMesh == local.meshes[local.k]

SlotBoneOf(o) ==
    pick_slot_bone_for_object(o, BoneNameSet(args.arm[1].all_bones),
                              args.arm[1].all_bones, DeformNames(args.arm[1].all_bones))

\* lines 126-128
MeshSlot ==
    /\ pc = "mesh_slot"
    /\ local' = [local EXCEPT !.slots_out = Append(@,
                    [name |-> CurrentMesh.name, bone |-> SlotBoneOf(CurrentMesh),
                     attachment |-> CurrentMesh.name])]
    /\ pc' = "mesh_region"
    /\ UNCHANGED <<fn, args, ret, region, att, LOG, fs>>

\* lines 130-166: center_region_xy divides by the number of region points
MeshRegion ==
    /\ pc = "mesh_region"
    /\ IF CurrentMesh.region_xy = <<>>
       THEN Raise("division by zero") /\ UNCHANGED region
       ELSE /\ region' = prepare_region(CurrentMesh.region_xy, CurrentMesh.uvs,
                                        CurrentMesh.new_to_src, CurrentMesh.triangles)
            /\ pc' = "mesh_attachment"
            /\ UNCHANGED local
    /\ UNCHANGED <<fn, args, ret, att, LOG, fs>>

\* lines 168-267
MeshAttachment ==
    /\ pc = "mesh_attachment"
    /\ att' = ExportAttachment(CurrentMesh, region, SlotBoneOf(CurrentMesh),
                               args.arm[1].all_bones, args.cfg)
    /\ pc' = "mesh_validate"
    /\ UNCHANGED <<fn, args, ret, region, LOG, fs, local>>

\* lines 269-277, and the next pass of the loop or its end
MeshValidate ==
    /\ pc = "mesh_validate"
    /\ LOG' = Append(LOG, IF validate_attachment_edges(att) = "ok"
                          THEN <<"[OK]", CurrentMesh.name>>
                          ELSE <<"[EdgeValidation][ERROR]", CurrentMesh.name>>)
    /\ local' = [local EXCEPT !.skin_atts = With(@, CurrentMesh.name, att),
                              !.k = @ + 1]
    /\ pc' = IF local.k < Len(local.meshes) THEN "mesh_slot" ELSE "animations"
    /\ UNCHANGED <<fn, args, ret, region, att, fs>>

\* lines 279-287
BuildAnimations ==
    /\ pc = "animations"
    /\ local' = [local EXCEPT !.animations_out =
                    build_animations(args.arm[1].all_bones, args.arm[1].action,
                                     args.fps, args.cfg.SCALE)]
    /\ pc' = "write_json"
    /\ UNCHANGED <<fn, args, ret, region, att, LOG, fs>>

\* lines 289-300
SpineDoc ==
    [bones |-> local.bones_out, slots |-> local.slots_out,
     skins |-> local.skin_atts, animations |-> local.animations_out]

\* lines 302-303: write_text raises OSError when the file cannot be written
WriteJson ==
    /\ pc = "write_json"
    /\ IF args.json_writable
       THEN /\ fs' = [fs EXCEPT !.out_json = Append(@, SpineDoc)]
            /\ LOG' = Append(LOG, "[SpineExport] Wrote")
            /\ pc' = "write_log"
            /\ UNCHANGED local
       ELSE Raise("OSError") /\ UNCHANGED <<LOG, fs>>
    /\ UNCHANGED <<fn, args, ret, region, att>>

HandleExceptionWriteFirst ==
    /\ pc = "except"
    /\ LOG' = LOG \o <<<<"[FATAL]", local.ex>>, "traceback">>
    /\ fs' = [fs EXCEPT !.out_log = Append(@, LOG)]
    /\ ret' = [raised |-> local.ex]
    /\ pc' = "raised"
    /\ UNCHANGED <<fn, args, region, att, local>>

\* lines 305-310: the except clause
HandleException ==
    /\ pc = "except"
    /\ LOG' = LOG \o <<<<"[FATAL]", local.ex>>, "traceback">>
    /\ fs' = [fs EXCEPT !.out_log = Append(@, LOG')]
    /\ ret' = [raised |-> local.ex]
    /\ pc' = "raised"
    /\ UNCHANGED <<fn, args, region, att, local>>

\* lines 312-314
WriteLog ==
    /\ pc = "write_log"
    /\ fs' = [fs EXCEPT !.out_log = Append(@, LOG)]
    /\ ret' = [returned |-> "out_json"]
    /\ pc' = "returned"
    /\ UNCHANGED <<fn, args, region, att, LOG, local>>

NextExport ==
    \/ StartLog
    \/ FindArmature
    \/ FindMeshes
    \/ EmitBonesOfExport
    \/ MeshSlot
    \/ MeshRegion
    \/ MeshAttachment
    \/ MeshValidate
    \/ BuildAnimations
    \/ WriteJson
    \/ HandleException
    \/ WriteLog

SpecExport == InitExport /\ [][NextExport]_vars

(***************************************************************************)
(* Claims.                                                                 *)
(***************************************************************************)
EdgeStreamOk(e, vertex_count) ==
    /\ Len(e) % 2 = 0
    /\ \A k \in 1..Len(e) : e[k] % 2 = 0 /\ 0 <= e[k] /\ e[k] < 2 * vertex_count
    /\ \A k \in 1..(Len(e) \div 2) : e[2 * k - 1] # e[2 * k]

C2_AllTrianglesCcw ==
    (fn = "hull_first_reorder" /\ pc = "return")
        => \A t \in 1..(Len(ret.triangles) \div 3) :
               tri_area2_xy(ret.region_xy, ret.triangles[3 * t - 2],
                            ret.triangles[3 * t - 1], ret.triangles[3 * t]) > 0

\* every region point lies to the left of, or on, every directed edge
\* (i, i+1 mod h) of the polygon made by the first h region points
HullCcwContainsAll(pts, h) ==
    \A i \in 1..h : \A q \in 1..Len(pts) :
        tri_area2_xy(pts, i - 1, i % h, q - 1) >= 0

\* C3 (as claimed): the first len(hull_idx) returned region coordinates are a
\* convex polygon listed counter-clockwise that contains every other returned
\* coordinate, for inputs of 3 or fewer points too.
C3_HullFirstIsCcwHull ==
    (fn = "hull_first_reorder" /\ pc = "return")
        => HullCcwContainsAll(ret.region_xy, Len(ret.hull_idx))

\* the triangles of a flat list that have both a and b among their corners
TrianglesWithBoth(tris, a, b) ==
    {t \in 1..(Len(tris) \div 3) :
         {a, b} \subseteq {tris[3 * t - 2], tris[3 * t - 1], tris[3 * t]}}

EffectiveMode ==
    IF args.mode = "None" THEN default_edge_mode(args.cfg_edges_mode) ELSE args.mode

\* C6: in boundary mode build_edges_from_tris_and_manual returns exactly the
\* undirected edges that occur in exactly one triangle (each once, a < b), and
\* for a quad split in two triangles the 4 outer edges without the diagonal.
C6_BoundaryEdges ==
    (fn = "build_edges_from_tris_and_manual" /\ pc = "return"
        /\ EffectiveMode = "boundary")
        => /\ Len(ret) % 2 = 0
           /\ Cardinality(PairsOfFlat(ret)) = Len(ret) \div 2
           /\ PairsOfFlat(ret) =
                  {e \in (0..MaxV) \X (0..MaxV) :
                       e[1] < e[2] /\
                       Cardinality(TrianglesWithBoth(args.triangles, e[1], e[2])) = 1}
           /\ args.triangles = <<0, 1, 2, 0, 2, 3>>
                  => ret = <<0, 1, 0, 3, 1, 2, 2, 3>>

\* the quad: two triangles sharing the diagonal 0-2
C6_Witness ==
    /\ fn = "build_edges_from_tris_and_manual" /\ pc = "return"
    /\ EffectiveMode = "boundary"
    /\ args.triangles = <<0, 1, 2, 0, 2, 3>>
    /\ Len(ret) = 8

\* the uv of loop li as the mesh holds it ((0, 0) where the layer has no data)
\* rounded to 6 decimals, with the loop's source vertex
RoundedLoop(li) ==
    LET raw == IF args.has_uv_layer /\ li < Len(args.uv_data)
               THEN args.uv_data[li + 1] ELSE <<0, 0>>
    IN  <<args.loops[li + 1], Round6(raw[1]), Round6(raw[2])>>

\* the NEW index of loop li: loopkey_to_new at the key of the loop
NewOfLoop(li) ==
    LET uv == LoopUV(args.has_uv_layer, args.uv_data, li)
    IN  LoopKeyToNew(ret.keys, LoopKey(args.loops[li + 1], uv[1], uv[2]))

\* the first loop mapped to NEW index k
FirstLoopOf(k) ==
    CHOOSE li \in 0..(Len(args.loops) - 1) :
        NewOfLoop(li) = k /\ \A lj \in 0..(li - 1) : NewOfLoop(lj) # k

\* C4: build_region_vertices_uvs allocates at most as many NEW indices as the
\* mesh has loops; loops with the same source vertex and the same UV rounded to
\* 6 decimals share a NEW index, loops that differ in either do not; the NEW
\* indices are 0, 1, 2, ... in order of first occurrence.
C4_DedupByVertexAndRoundedUv ==
    (fn = "build_region_vertices_uvs" /\ pc = "return")
        => LET nl == Len(args.loops)
               nn == Len(ret.new_to_src)
           IN  /\ nn <= nl
               /\ Len(ret.uvs) = 2 * nn /\ Len(ret.region_xy) = nn /\ Len(ret.keys) = nn
               /\ \A li, lj \in 0..(nl - 1) :
                      (RoundedLoop(li) = RoundedLoop(lj)) <=> (NewOfLoop(li) = NewOfLoop(lj))
               /\ \A li \in 0..(nl - 1) : NewOfLoop(li) \in 0..(nn - 1)
               /\ \A k \in 0..(nn - 1) :
                      /\ \E li \in 0..(nl - 1) : NewOfLoop(li) = k
                      /\ ret.new_to_src[k + 1] = <<args.loops[FirstLoopOf(k) + 1], FirstLoopOf(k)>>
               /\ \A k, m \in 0..(nn - 1) : k < m => FirstLoopOf(k) < FirstLoopOf(m)

\* two loops collapse into one NEW index while a third, of the same vertex and
\* with a uv one rounding step away, gets its own
C4_Witness ==
    /\ fn = "build_region_vertices_uvs" /\ pc = "return"
    /\ Len(args.loops) = 3 /\ Len(ret.new_to_src) = 2
    /\ args.loops = <<0, 0, 0>>
    /\ args.has_uv_layer /\ Len(args.uv_data) = 3
    /\ args.uv_data[1] # args.uv_data[2]
    /\ NewOfLoop(0) = NewOfLoop(1)

\* the numerators of the normalized weights of one influence list
RECURSIVE SumNumerators(_)
SumNumerators(infl) ==
    IF infl = <<>> THEN 0 ELSE Head(infl)[2][1] + SumNumerators(Tail(infl))

\* the weights of infl are fractions over one denominator and sum to 1
WeightsSumToOne(infl) ==
    /\ infl # <<>>
    /\ \A i \in 1..Len(infl) : infl[i][2][2] = infl[1][2][2] /\ infl[i][2][1] > 0
    /\ SumNumerators(infl) = infl[1][2][2]

\* C5 (as claimed): for every max_influences, 0 included, each vertex has at
\* most max_influences influences and their weights sum to 1.
C5_AtMostMaxInfluences ==
    (fn = "build_vertex_influences" /\ pc = "return")
        => \A v \in 1..Len(ret) :
               WeightsSumToOne(ret[v]) /\ Len(ret[v]) <= args.max_influences

\* C5 (amended): the weights of every vertex sum to 1; the number of
\* influences is at most max_influences when max_influences >= 1, and with
\* max_influences = 0 every vertex has the single fallback influence.
C5_SumOneAndAtMostMaxOrFallback ==
    (fn = "build_vertex_influences" /\ pc = "return")
        => \A v \in 1..Len(ret) :
               /\ WeightsSumToOne(ret[v])
               /\ args.max_influences >= 1 => Len(ret[v]) <= args.max_influences
               /\ args.max_influences = 0 => ret[v] = <<<<args.fallback_bone, <<1, 1>>>>>>

\* a vertex with two deform weights above weight_eps, cut to the heavier one
C5_Witness ==
    /\ fn = "build_vertex_influences" /\ pc = "return"
    /\ args.max_influences = 1
    /\ Len(PruneByEps(RawInfluences(args.vertices[1], args.vertex_groups,
                                    args.deform_names), args.weight_eps)) = 2
    /\ args.vertices[1][1].weight < args.vertices[1][2].weight
    /\ ret[1] = <<<<args.vertex_groups[args.vertices[1][2].group + 1], <<args.vertices[1][2].weight, args.vertices[1][2].weight>>>>>>

\* field k of a bone record, 0 when the record has no such field
FieldOr0(d, k) == IF k \in DOMAIN d THEN d[k] ELSE 0

\* the armature of the scenario: "root" with head (0, 0, 0) and basis tangent
\* (1, 0), its child "arm" with head (2, 0, 1), scale 100
RootArmScenario ==
    /\ fn = "export_now" /\ pc = "bones_out"
    /\ Len(args.all_bones) >= 2
    /\ args.all_bones[1].name = "root" /\ args.all_bones[1].parent = ""
    /\ args.all_bones[1].head = <<0, 0, 0>>
    /\ basis_from_parent(args.all_bones[1].head, args.all_bones[1].tail).x = <<1, 0>>
    /\ basis_from_parent(args.all_bones[1].head, args.all_bones[1].tail).L = 1
    /\ args.all_bones[2].name = "arm" /\ args.all_bones[2].parent = "root"
    /\ args.all_bones[2].head = <<2, 0, 1>>
    /\ args.SCALE = 100

\* C7 (as claimed): in the scenario the record of "arm" has x = 200 and y = 0.
C7_ArmAt200And0 ==
    RootArmScenario => /\ FieldOr0(ret[2], "x") = 200 * 10000
                       /\ FieldOr0(ret[2], "y") = 0

\* C7 (amended): in the scenario the record of "arm" has x = 200 and y = 100:
\* the head's frame-space z component is its offset along the parent's normal.
C7_ArmAt200And100 ==
    RootArmScenario => /\ ret[2].name = "arm" /\ ret[2].parent = "root"
                       /\ FieldOr0(ret[2], "x") = 200 * 10000
                       /\ FieldOr0(ret[2], "y") = 100 * 10000

C7_Witness ==
    /\ RootArmScenario
    /\ "x" \in DOMAIN ret[2] /\ "y" \in DOMAIN ret[2]
    /\ args.all_bones[1].tail = <<1, 0, 0>>

\* the channels handed to _emit_channel_timelines, and the frames of its records
EmittedChannels == SelectChannels(args.kind, args.action_fcurves)

EmittedFrames ==
    SortInts(UNION {KnotFrames(EmittedChannels[c]) : c \in 1..Len(EmittedChannels)})

KeysEmitted == fn = "build_animations" /\ pc = "keys"

\* the record carries the tag "stepped", a numeric curve, no tag
IsStepped(rec) == "curve" \in DOMAIN rec /\ Len(rec.curve) = 1
IsNumericCurve(rec) == "curve" \in DOMAIN rec /\ Len(rec.curve) > 1
HasNoCurve(rec) == "curve" \notin DOMAIN rec

\* the keyframe of channel c a record at frame f is built from: the one kept
\* for f, which is the last of the keyframes whose frame rounds to f
OwnKeyframe(c, f) == knot_map_by_frame(EmittedChannels[c])[f]

\* the two keyframes at frame 0 (value 0, step) and frame 24 (value 10)
StepThenTen(kps) ==
    /\ Len(kps) = 2
    /\ kps[1].co = <<0, 0>> /\ kps[1].interpolation = "CONSTANT"
    /\ kps[2].co = <<48, RawTen(args.kind)>>

\* C8: for a single channel, every record but the last whose own keyframe is
\* CONSTANT is tagged "stepped"; the last record carries no curve tag;
\* keyframes at frame 0 (value 0, step) and frame 24 (value 10) at fps 24
\* give the two records {time 0, "stepped"} and {time 1.0, no curve}.
C8_SteppedAndLastUntagged ==
    (KeysEmitted /\ Len(EmittedChannels) = 1)
        => /\ Len(ret) = Len(EmittedFrames)
           /\ \A idx \in 1..(Len(ret) - 1) :
                  OwnKeyframe(1, EmittedFrames[idx]).interpolation = "CONSTANT"
                      => IsStepped(ret[idx]) /\ ret[idx].curve = Stepped
           /\ ret # <<>> => HasNoCurve(ret[Len(ret)])
           /\ (StepThenTen(EmittedChannels[1]) /\ args.fps = 24)
                  => /\ Len(ret) = 2
                     /\ ret[1].time = 0 /\ IsStepped(ret[1])
                     /\ ret[2].time = 1000000 /\ HasNoCurve(ret[2])

C8_Witness ==
    /\ KeysEmitted /\ Len(EmittedChannels) = 1
    /\ StepThenTen(EmittedChannels[1]) /\ args.fps = 24
    /\ Len(ret) = 2 /\ IsStepped(ret[1])

\* the four numbers of the segment from keyframe ki to keyframe kj
SegmentNumbers(ki, kj) ==
    <<RoundDiv(ki.handle_right[1] * 1000000, 2 * args.fps),
      ValueXform(args.kind, args.SCALE, ki.handle_right[2]),
      RoundDiv(kj.handle_left[1] * 1000000, 2 * args.fps),
      ValueXform(args.kind, args.SCALE, kj.handle_left[2])>>

\* channel c has a Bezier keyframe at frame f and one at frame nxt, of
\* different values and frames, whose handles give the four numbers four
BezierPairAt(c, f, nxt, four) ==
    \E i, j \in 1..Len(EmittedChannels[c]) :
        LET ki == EmittedChannels[c][i]
            kj == EmittedChannels[c][j]
        IN  /\ IntRound(ki.co[1]) = f /\ IntRound(kj.co[1]) = nxt
            /\ ki.interpolation = "BEZIER" /\ kj.interpolation = "BEZIER"
            /\ ki.co[2] # kj.co[2] /\ ki.co[1] # kj.co[1]
            /\ four = SegmentNumbers(ki, kj)

BezierSegment(f, nxt) ==
    \A c \in 1..Len(EmittedChannels) :
        /\ f \in KnotFrames(EmittedChannels[c]) /\ nxt \in KnotFrames(EmittedChannels[c])
        /\ OwnKeyframe(c, f).interpolation = "BEZIER"
        /\ OwnKeyframe(c, nxt).interpolation = "BEZIER"
        /\ OwnKeyframe(c, f).co[2] # OwnKeyframe(c, nxt).co[2]

\* C10: between two Bezier keyframes of different values, at fps 24, the four
\* numbers emitted for a channel are [round(f1 / 24, 6), xform(v1),
\* round(f2 / 24, 6), xform(v2)] with (f1, v1) the right handle of the start
\* keyframe, (f2, v2) the left handle of the end keyframe and xform the value
\* transform of the property (4 decimals for translate and rotate, 6 for scale).
C10_CurveFromHandles ==
    (KeysEmitted /\ args.fps = 24)
        => \A idx \in 1..(Len(ret) - 1) :
               BezierSegment(EmittedFrames[idx], EmittedFrames[idx + 1])
                   => /\ IsNumericCurve(ret[idx])
                      /\ \A c \in 1..Len(EmittedChannels) :
                             SubSeq(ret[idx].curve, 4 * c - 3, 4 * c)
                                 = SegmentNumbers(OwnKeyframe(c, EmittedFrames[idx]),
                                                  OwnKeyframe(c, EmittedFrames[idx + 1]))

\* the 4-number curve of a rotate segment whose handle values need rounding
C10_Witness ==
    /\ KeysEmitted /\ args.kind = "rotate" /\ args.fps = 24
    /\ Len(ret) = 2 /\ IsNumericCurve(ret[1]) /\ Len(ret[1].curve) = 4
    /\ EmittedChannels[1][1].handle_right = <<3, 6>>
    /\ ret[1].curve[1] = 62500 /\ ret[1].curve[2] = 34377

(***************************************************************************)
(* The slot bone.                                                          *)
(***************************************************************************)
\* the deform bones of the armature that have a parent
DeformWithParent ==
    {args.all_bones[i] : i \in {j \in 1..Len(args.all_bones) :
        args.all_bones[j].use_deform /\ args.all_bones[j].parent # ""}}

IsTopLevel(name) == \E i \in 1..Len(args.all_bones) :
                        args.all_bones[i].name = name /\ args.all_bones[i].parent = ""

\* the first top-level bone called "root" in any case, else the first
\* top-level bone
IsRootRuleBone(name) ==
    LET tops == {i \in 1..Len(args.all_bones) : args.all_bones[i].parent = ""}
        roots == {i \in tops : args.all_bones[i].name \in {"root", "Root", "ROOT"}}
        pick == IF roots # {} THEN roots ELSE tops
    IN  \E i \in pick : args.all_bones[i].name = name /\ \A j \in pick : i <= j

NoDirectParentNoDominant ==
    /\ fn = "pick_slot_bone_for_object" /\ pc = "return"
    /\ ~(args.obj.parent_is_arm /\ args.obj.parent_bone = "")
    /\ \A v \in 1..Len(args.obj.vertices) : \A g \in 1..Len(args.obj.vertices[v]) :
           LET m == args.obj.vertices[v][g]
           IN  ~(SlotVertexGroups[m.group + 1] \in args.deform_names /\ m.weight > 0)

\* C11 (as claimed): for a mesh not parented directly to the armature and
\* without dominant deform group, the slot bone is a deform bone with a parent,
\* one under a top-level bone when there is such a deform bone; when no deform
\* bone has a parent it is the top-level bone called "root" or else the first
\* top-level bone.
C11_SlotBonePriority ==
    NoDirectParentNoDominant =>
        IF DeformWithParent # {}
        THEN \E b \in DeformWithParent :
                 /\ b.name = ret
                 /\ (\E c \in DeformWithParent : IsTopLevel(c.parent)) => IsTopLevel(b.parent)
        ELSE IsRootRuleBone(ret)

(***************************************************************************)
(* export_now: abort, log file, attachments.                               *)
(***************************************************************************)
StartLines == <<"=== Spine Export Start ===", "Blend", "OCA dir", "JSON out">>

NoArmatureOrNoMesh ==
    /\ fn = "export_now"
    /\ args.arm = <<>> \/ \A i \in 1..Len(args.scene_objects) : ~args.scene_objects[i].linked

Terminated == fn = "export_now" /\ pc \in {"returned", "raised"}

\* C12: with no armature, or no mesh linked to it, export_now never emits a
\* bone, a slot or an attachment, never writes the JSON document and never
\* returns; when it has terminated the error is raised to the caller and the
\* log file holds the lines logged before the failing check, then the fatal
\* message and the traceback.
C12_AbortWithoutArmatureOrMesh ==
    NoArmatureOrNoMesh =>
        /\ local.bones_out = <<>> /\ local.slots_out = <<>> /\ local.skin_atts = <<>>
        /\ fs.out_json = <<>>
        /\ pc \in {"log_start", "active_armature", "meshes", "except", "raised"}
        /\ Terminated =>
               /\ ret = [raised |-> IF args.arm = <<>> THEN "No armature found."
                                    ELSE "No meshes linked to active armature."]
               /\ fs.out_log = <<StartLines \o <<<<"[FATAL]", ret.raised>>, "traceback">>>>

C12_Witness ==
    /\ Terminated /\ args.arm # <<>> /\ args.scene_objects # <<>>
    /\ ret = [raised |-> "No meshes linked to active armature."]
    /\ Len(fs.out_log) = 1

\* the lines logged for the meshes whose pass of the loop is over
MeshLines == SelectSeq(LOG, LAMBDA l : l \in {<<"[OK]", n>> : n \in {"tri", "quad", "seam", "void"}})

\* C13: the log file is written only when export_now terminates, then once,
\* and it holds LOG as it stands: the start lines first, one line per mesh
\* whose pass is over, and last the line of the JSON write (on return) or the
\* fatal message and the traceback (on raise).
C13_LogWrittenOnceAtEnd ==
    fn = "export_now" =>
        /\ Terminated <=> fs.out_log # <<>>
        /\ Terminated =>
               /\ fs.out_log = <<LOG>>
               /\ SubSeq(LOG, 1, 4) = StartLines
               /\ Len(MeshLines) = Cardinality(DOMAIN local.skin_atts)
               /\ pc = "returned" => LOG[Len(LOG)] = "[SpineExport] Wrote"
               /\ pc = "raised" => SubSeq(LOG, Len(LOG) - 1, Len(LOG))
                                       = <<<<"[FATAL]", ret.raised>>, "traceback">>

C13_Witness ==
    /\ Terminated /\ ret = [raised |-> "division by zero"]
    /\ Len(MeshLines) = 1 /\ Len(local.slots_out) = 2
    /\ fs.out_log = <<LOG>>

WeightedFlag(o) ==
    mesh_has_deform_weights(o.vertices, o.vertex_groups,
                            DeformNames(args.arm[1].all_bones), args.cfg.WEIGHT_EPS)

\* the numbers of influences written in a weighted vertices stream
RECURSIVE InfluenceCounts(_)
InfluenceCounts(vertices_seq) ==
    IF vertices_seq = <<>> THEN <<>>
    ELSE <<vertices_seq[1]>>
         \o InfluenceCounts(SubSeq(vertices_seq, 2 + 4 * vertices_seq[1], Len(vertices_seq)))

\* C15: for every attachment built by export_now, the vertices stream is
\* longer than or shorter than uvs exactly when the mesh was exported as
\* weighted, and as long as uvs when it was exported as unweighted:
\* is_spine_weighted agrees with the weighted flag.
C15_WeightedSelfDescribing ==
    (fn = "export_now" /\ pc = "mesh_validate") =>
        /\ is_spine_weighted(att.vertices, att.uvs) = WeightedFlag(CurrentMesh)
        /\ WeightedFlag(CurrentMesh) => Len(att.vertices) # Len(att.uvs)
        /\ ~WeightedFlag(CurrentMesh) => Len(att.vertices) = Len(att.uvs)

C15_Witness ==
    /\ fn = "export_now" /\ pc = "mesh_validate"
    /\ WeightedFlag(CurrentMesh) /\ Len(att.uvs) = 8
    /\ Range(InfluenceCounts(att.vertices)) = {1, 2}
    /\ args.cfg.MAX_INFLUENCES = 2

\* the bones of the armature that have a parent, once bones_out is built
NonRootBones ==
    {i \in 1..Len(args.all_bones) : args.all_bones[i].parent # ""}

\* rel of bone i: this.angle - parent.angle, normalized to (-180, 180]
RelOf(i) ==
    LET b == args.all_bones[i]
        p == BoneNamed(args.all_bones, b.parent)
    IN  normalize_deg(angle_ccw_xz(b.head, b.tail) - angle_ccw_xz(p.head, p.tail))

\* |rel| is within the configured tolerance of 90 degrees
WithinTolOf90(rel) == Abs(Abs(rel) - 90 * Deg) <= args.VERTICAL_TOL_DEG

\* the rotation emitted for bone i, 0 when the record has none, in 1e-4 degree
EmittedRotation(i) == FieldOr0(ret[i], "rotation")

BonesEmitted == fn = "export_now" /\ pc = "bones_out"

\* C16 (as claimed): for every non-root bone the emitted rotation is rel when
\* |rel| is within the tolerance of 90 degrees, and -rel when it deviates
\* from 90 degrees by more than the tolerance.
C16_RotationSignAsClaimed ==
    BonesEmitted =>
        \A i \in NonRootBones :
            EmittedRotation(i) = IF WithinTolOf90(RelOf(i))
                                 THEN RoundDiv(RelOf(i), 10)
                                 ELSE RoundDiv(-RelOf(i), 10)

\* C16 (amended): for every non-root bone the emitted rotation, to 4
\* decimals, is -rel when |rel| is within the tolerance of 90 degrees, and
\* rel when |rel| deviates from 90 degrees by more than the tolerance, but
\* -180 when rel is 180 (an omitted rotation counts as 0).
C16_RotationSignRule ==
    BonesEmitted =>
        \A i \in NonRootBones :
            EmittedRotation(i) = IF WithinTolOf90(RelOf(i))
                                 THEN RoundDiv(-RelOf(i), 10)
                                 ELSE IF RelOf(i) = 180 * Deg THEN -1800000
                                 ELSE RoundDiv(RelOf(i), 10)

C16_Witness ==
    /\ BonesEmitted /\ NonRootBones = {2}
    /\ args.VERTICAL_TOL_DEG = 40 * Deg
    /\ RelOf(2) = -5313010 /\ WithinTolOf90(RelOf(2))
    /\ ret[2].rotation = 531301

\* the rotate property of a bone has gone through build_animations
RotateDone ==
    /\ fn = "build_animations" /\ pc = "done" /\ args.kind = "rotate"
    /\ EmittedChannels # <<>>

\* the rotation, in 1e-4 degree, at each keyframe frame of the rotate channel
RotateAngles ==
    [i \in 1..Len(EmittedFrames) |->
        ValueXform("rotate", args.SCALE, Evaluate(EmittedChannels[1], EmittedFrames[i]))]

\* C17 (as claimed): every record of an emitted rotate timeline carries a
\* value field of magnitude above 1e-9; keyframes of near-zero rotation are
\* left out of the timeline.
C17_NearZeroRecordsOmitted ==
    (RotateDone /\ ret.present) =>
        \A i \in 1..Len(ret.keys) :
            "value" \in DOMAIN ret.keys[i] /\ ret.keys[i].value # 0

\* C17 (amended): an emitted rotate timeline has one record per keyframe
\* frame; the record of a keyframe whose rotation magnitude is above 1e-9
\* carries that rotation as value, the record of a keyframe of near-zero
\* rotation stays in the timeline without a value field; the timeline is
\* emitted exactly when some keyframe has a rotation above 1e-9.
C17_NearZeroValueOmitted ==
    RotateDone =>
        /\ ret.present <=> \E i \in 1..Len(RotateAngles) : RotateAngles[i] # 0
        /\ ret.present =>
               /\ Len(ret.keys) = Len(RotateAngles)
               /\ \A i \in 1..Len(ret.keys) :
                      /\ ret.keys[i].time
                             = RoundSeconds6(scene_seconds(2 * EmittedFrames[i], args.fps))
                      /\ IF RotateAngles[i] # 0
                         THEN /\ "value" \in DOMAIN ret.keys[i]
                              /\ ret.keys[i].value = RotateAngles[i]
                         ELSE "value" \notin DOMAIN ret.keys[i]

C17_Witness ==
    /\ RotateDone /\ ret.present /\ Len(ret.keys) = 2
    /\ "value" \notin DOMAIN ret.keys[1]
    /\ "value" \in DOMAIN ret.keys[2] /\ ret.keys[2].value # 0

\* the attachment of a mesh is built, with its nonessential data
AttachmentBuilt ==
    /\ fn = "export_now" /\ pc = "validate"
    /\ args.EMIT_NONESSENTIAL /\ args.EDGES_MODE # "off"

\* lines 239-251: the edges derived from the mesh edges, before the fallback
DerivedEdges ==
    sanitize_vert_edges(
        build_edges_from_tris_and_manual(region.triangles, region.new_to_src,
                                         region.region_xy, args.me_edges,
                                         "all", TRUE, TRUE, FALSE, "all"),
        Len(region.region_xy))

\* edge derivation yields nothing and the hull has at least 3 indices
FallbackCase ==
    AttachmentBuilt /\ DerivedEdges = <<>> /\ Len(region.hull_idx) >= 3

\* the edges of a written edge list as pairs of indices of the vertex stream
WrittenEdges(edges) ==
    [k \in 1..(Len(edges) \div 2) |-> {edges[2 * k - 1] \div 2, edges[2 * k] \div 2}]

\* the closed cycle over the first h vertices of the stream, in their order
HullCycle(h) == {{i, (i + 1) % h} : i \in 0..(h - 1)}

\* C18: in the fallback case the edges written for the attachment are the
\* closed cycle over the hull vertices of the final vertex stream, which the
\* hull-first reorder has put at the indices 0 .. len(hull_idx) - 1 in hull
\* order: each edge joins two vertices consecutive on the hull and each
\* hull vertex ends exactly two edges.
C18_FallbackPerimeterOnHull ==
    FallbackCase =>
        /\ "edges" \in DOMAIN att
        /\ Len(att.edges) = 2 * Len(region.hull_idx)
        /\ Range(WrittenEdges(att.edges)) = HullCycle(Len(region.hull_idx))

\* build_edges_from_tris_and_manual has returned from a call with an explicit
\* mode and the default use_seams, use_sharp and include_boundary
BuildEdgesReturned(mode) ==
    /\ fn = "build_edges_from_tris_and_manual" /\ pc = "return"
    /\ args.mode = mode
    /\ args.use_seams /\ args.use_sharp /\ args.include_boundary

\* the least member of a non-empty set of indices
LeastOf(S) == CHOOSE x \in S : \A y \in S : x <= y

\* the NEW indices that carry the source vertex sv
NewIndicesOf(sv) ==
    {i \in 0..(Len(args.new_to_src) - 1) : args.new_to_src[i + 1][1] = sv}

\* the source mesh edges whose two ends have a NEW index, not the same one
MappableEdges(flagged_only) ==
    {k \in 1..Len(args.me_edges) :
        /\ flagged_only => (args.me_edges[k].use_seam \/ args.me_edges[k].use_edge_sharp)
        /\ NewIndicesOf(args.me_edges[k].vertices[1]) # {}
        /\ NewIndicesOf(args.me_edges[k].vertices[2]) # {}
        /\ LeastOf(NewIndicesOf(args.me_edges[k].vertices[1]))
               # LeastOf(NewIndicesOf(args.me_edges[k].vertices[2]))}

\* their first-match mappings, as canonical pairs
FirstMatchEdges(flagged_only) ==
    {Canon(LeastOf(NewIndicesOf(args.me_edges[k].vertices[1])),
           LeastOf(NewIndicesOf(args.me_edges[k].vertices[2]))) :
        k \in MappableEdges(flagged_only)}

\* the triangle-boundary edges of the call
BoundaryEdgesOfCall == BoundaryPairs(args.triangles, Len(args.region_xy))

\* the returned list is canonical, in range, without self-loops or duplicates
ReturnedCanonical ==
    /\ Len(ret) % 2 = 0
    /\ \A p \in PairsOfFlat(ret) : 0 <= p[1] /\ p[1] < p[2] /\ p[2] < Len(args.region_xy)
    /\ Cardinality(PairsOfFlat(ret)) = Len(ret) \div 2

\* C19 (as claimed): with the default arguments, mode all returns exactly the
\* first-match mappings of every source mesh edge and no other edge.
C19_AllOnlyMeshEdges ==
    BuildEdgesReturned("all") =>
        ReturnedCanonical /\ PairsOfFlat(ret) = FirstMatchEdges(FALSE)

\* C19 (amended): with the default arguments, manual returns exactly the
\* first-match mappings of the mesh edges flagged seam or sharp, mixed the
\* union of the triangle-boundary edges and the manual edges, and all the
\* union of the triangle-boundary edges and the first-match mappings of
\* every mesh edge; each list is canonical, without duplicates, self-loops
\* or out-of-range indices.
C19_EdgesByMode ==
    /\ BuildEdgesReturned("manual") =>
           ReturnedCanonical /\ PairsOfFlat(ret) = FirstMatchEdges(TRUE)
    /\ BuildEdgesReturned("mixed") =>
           ReturnedCanonical
           /\ PairsOfFlat(ret) = BoundaryEdgesOfCall \cup FirstMatchEdges(TRUE)
    /\ BuildEdgesReturned("all") =>
           ReturnedCanonical
           /\ PairsOfFlat(ret) = BoundaryEdgesOfCall \cup FirstMatchEdges(FALSE)

C19_Witness ==
    /\ BuildEdgesReturned("all")
    /\ args.new_to_src = IdentitySrc(4) /\ args.triangles = <<0, 1, 2>>
    /\ FirstMatchEdges(FALSE) = {<<0, 3>>} /\ FirstMatchEdges(TRUE) = {}
    /\ ret = <<0, 1, 0, 2, 0, 3, 1, 2>>

ReorderReturned == fn = "hull_first_reorder" /\ pc = "return"

\* the pre-reorder index of the vertex at output index i (0-based): the
\* inputs number their source-map entries by their NEW index
OldIndexAt(i) == ret.new_to_src[i + 1][2]

\* the source triangles of nonzero area, as triples of pre-reorder indices
SourceTrianglesKept ==
    LET tris == [k \in 1..(Len(args.triangles) \div 3) |->
                    <<args.triangles[3 * k - 2], args.triangles[3 * k - 1],
                      args.triangles[3 * k]>>]
    IN  SelectSeq(tris, LAMBDA t :
            tri_area2_xy(args.region_xy_centered, t[1], t[2], t[3]) # 0)

\* C20: hull_first_reorder applies one permutation of the NEW indices, the
\* hull indices first and then the remaining indices in ascending order,
\* to every array: the coordinate, UV pair and source-map entry at an
\* output index all come from the same pre-reorder index, the arrays keep
\* their lengths, every kept triangle has the three pre-reorder vertices of
\* its source triangle, and every triangle index is in [0, vertex_count).
C20_OnePermutationForAllArrays ==
    ReorderReturned =>
        LET n == Len(args.region_xy_centered)
            h == Len(ret.hull_idx)
        IN  /\ Len(ret.region_xy) = n /\ Len(ret.uvs) = Len(args.uvs)
            /\ Len(ret.new_to_src) = Len(args.new_to_src)
            /\ {OldIndexAt(i) : i \in 0..(n - 1)} = 0..(n - 1)
            /\ \A i \in 0..(n - 1) :
                   /\ ret.region_xy[i + 1] = args.region_xy_centered[OldIndexAt(i) + 1]
                   /\ UvPair(ret.uvs, i) = UvPair(args.uvs, OldIndexAt(i))
                   /\ ret.new_to_src[i + 1] = args.new_to_src[OldIndexAt(i) + 1]
            /\ \A i \in 0..(h - 1) : OldIndexAt(i) = ret.hull_idx[i + 1]
            /\ \A i, j \in h..(n - 1) : i < j => OldIndexAt(i) < OldIndexAt(j)
            /\ \A k \in 1..Len(ret.triangles) : ret.triangles[k] \in 0..(n - 1)
            /\ SourceTrianglesKept # <<>> =>
                   /\ Len(ret.triangles) = 3 * Len(SourceTrianglesKept)
                   /\ \A k \in 1..Len(SourceTrianglesKept) :
                          {OldIndexAt(ret.triangles[3 * k - j]) : j \in 0..2}
                              = Range(SourceTrianglesKept[k])

C20_Witness ==
    /\ ReorderReturned
    /\ args.region_xy_centered = << <<1, 1>>, <<0, 0>>, <<2, 0>>, <<1, 2>> >>
    /\ args.triangles = <<1, 3, 2>>
    /\ ret.hull_idx = <<1, 2, 3>> /\ OldIndexAt(3) = 0
    /\ ret.triangles = <<0, 1, 2>>

InfluencesReturned == fn = "build_vertex_influences" /\ pc = "return"

\* the memberships of vertex v in a group of a deform bone with a weight
\* above weight_eps (and above 0), as positions in v.groups
SurvivingGroups(v) ==
    {i \in 1..Len(args.vertices[v]) :
        LET g == args.vertices[v][i]
        IN  /\ g.group \in 0..(Len(args.vertex_groups) - 1)
            /\ args.vertex_groups[g.group + 1] \in args.deform_names
            /\ g.weight > args.weight_eps /\ g.weight > 0}

\* the position in v.groups of the membership in the group called bn
MembershipOf(v, bn) ==
    CHOOSE i \in 1..Len(args.vertices[v]) :
        args.vertex_groups[args.vertices[v][i].group + 1] = bn

\* the number of influences kept for vertex v
KeptCount(v) ==
    IF Cardinality(SurvivingGroups(v)) < args.max_influences
    THEN Cardinality(SurvivingGroups(v)) ELSE args.max_influences

\* C21: for each vertex the influences returned are memberships in groups
\* of deform bones with a weight above weight_eps, the max_influences
\* heaviest of them in descending order of weight (no group left out is
\* heavier than one kept), with weights over one common sum, so that their
\* ratios are those of the raw weights; the single entry (fallback_bone, 1)
\* is substituted exactly when no such group is left.
C21_KeptInfluences ==
    InfluencesReturned =>
        \A v \in 1..Len(ret) :
            IF KeptCount(v) = 0
            THEN ret[v] = <<<<args.fallback_bone, <<1, 1>>>>>>
            ELSE LET at(k) == MembershipOf(v, ret[v][k][1])
                     kept == {at(k) : k \in 1..Len(ret[v])}
                 IN  /\ Len(ret[v]) = KeptCount(v)
                     /\ Cardinality(kept) = Len(ret[v])
                     /\ kept \subseteq SurvivingGroups(v)
                     /\ \A k \in 1..Len(ret[v]) :
                            /\ ret[v][k][2][1] = args.vertices[v][at(k)].weight
                            /\ ret[v][k][2][2] = ret[v][1][2][2]
                     /\ \A k \in 1..(Len(ret[v]) - 1) :
                            ret[v][k][2][1] >= ret[v][k + 1][2][1]
                     /\ \A i \in SurvivingGroups(v) \ kept : \A j \in kept :
                            args.vertices[v][i].weight <= args.vertices[v][j].weight

C21_Witness ==
    /\ InfluencesReturned
    /\ args.deform_names = {"arm", "hand"} /\ args.weight_eps = 1
    /\ args.max_influences = 2 /\ args.fallback_bone = "hand"
    /\ args.vertices[1] = <<[group |-> 1, weight |-> 2], [group |-> 2, weight |-> 3],
                            [group |-> 0, weight |-> 3]>>
    /\ ret[1] = << <<"arm", <<3, 5>>>>, <<"hand", <<2, 5>>>> >>

\* this.angle - parent.angle of bone i, as subtracted (not normalized)
RelCcwOf(i) ==
    LET b == args.all_bones[i]
        p == BoneNamed(args.all_bones, b.parent)
    IN  angle_ccw_xz(b.head, b.tail) - angle_ccw_xz(p.head, p.tail)

\* a lies in (-180, 180], a in units of 1e-5 degree
InHalfOpenTurn(a) == -180 * Deg < a /\ a <= 180 * Deg

\* C22: the rotation emitted for every non-root bone lies in (-180, 180],
\* also for a relative angle of 180 or -180 degrees and after the sign
\* flip; normalize_deg of the relative angle lies in (-180, 180] and is
\* congruent to it modulo 360.
C22_RotationInHalfOpenTurn ==
    BonesEmitted =>
        \A i \in NonRootBones :
            /\ InHalfOpenTurn(normalize_deg(RelCcwOf(i)))
            /\ (normalize_deg(RelCcwOf(i)) - RelCcwOf(i)) % (360 * Deg) = 0
            /\ InHalfOpenTurn(10 * EmittedRotation(i))

\* the integer nearest to the frame h / 2 (h >= 0), the even one at a tie
NearestFrame(h) ==
    IF h % 2 = 0 THEN h \div 2
    ELSE IF ((h - 1) \div 2) % 2 = 0 THEN (h - 1) \div 2 ELSE (h + 1) \div 2

\* the union of the integer-rounded keyframe frames of the supplied channels
UnionOfFrames ==
    UNION {{NearestFrame(EmittedChannels[c][i].co[1]) : i \in 1..Len(EmittedChannels[c])} :
              c \in 1..Len(EmittedChannels)}

\* C23: _emit_channel_timelines emits one record per frame of the union of
\* the integer-rounded keyframe frames of the supplied channels, at the
\* time of that frame, in strictly increasing time order, each with one
\* value per supplied channel; it emits no record when no channel has a
\* keyframe or when the channel list is empty.
C23_OneRecordPerFrame ==
    /\ KeysEmitted =>
           /\ Len(ret) = Cardinality(UnionOfFrames)
           /\ {ret[i].time : i \in 1..Len(ret)}
                  = {RoundDiv(f * 1000000, args.fps) : f \in UnionOfFrames}
           /\ \A i \in 1..(Len(ret) - 1) : ret[i].time < ret[i + 1].time
           /\ \A i \in 1..Len(ret) : Len(ret[i]._vals) = Len(EmittedChannels)
    /\ (fn = "build_animations" /\ pc = "done" /\ EmittedChannels = <<>>) =>
           emit_channel_timelines(EmittedChannels, args.fps, args.kind, args.SCALE) = <<>>

\* the first channel has its keyframe at frame 0, the second at the frames
\* 1 and 1.5: three records of two values
C23_Witness ==
    /\ KeysEmitted /\ Len(EmittedChannels) = 2
    /\ UnionOfFrames = {0, 1, 2}
    /\ Len(EmittedChannels[1]) = 1 /\ EmittedChannels[1][1].co[1] = 0
    /\ Len(EmittedChannels[2]) = 2 /\ EmittedChannels[2][2].co[1] = 3
    /\ Len(ret) = 3 /\ ret[3].time = 83333 /\ Len(ret[2]._vals) = 2

\* channel c has a keyframe of its own at frame f, and it is CONSTANT
ConstantKeyframeAt(c, f) ==
    /\ f \in KnotFrames(EmittedChannels[c])
    /\ OwnKeyframe(c, f).interpolation = "CONSTANT"

\* C24: in a two-channel timeline every record but the last is tagged
\* "stepped" when a keyframe that starts its interval is CONSTANT, whichever
\* of the two channels carries that keyframe, also when only one of the
\* channels has a keyframe at that frame.
C24_SteppedFromEitherChannel ==
    (KeysEmitted /\ Len(EmittedChannels) = 2) =>
        \A idx \in 1..(Len(ret) - 1) :
            (\E c \in 1..2 : ConstantKeyframeAt(c, EmittedFrames[idx]))
                => IsStepped(ret[idx])

SanitizeReturned ==
    fn \in {"sanitize_vert_edges", "sanitize_edges"} /\ pc = "return"

\* the pairs that stand at the even offsets of the input list with both ends
\* in [0, vcount), without orientation
InputEdgesInRange ==
    {{args.edges[2 * k - 1], args.edges[2 * k]} : k \in
        {j \in 1..(Len(args.edges) \div 2) :
            /\ args.edges[2 * j - 1] \in 0..(args.vcount - 1)
            /\ args.edges[2 * j] \in 0..(args.vcount - 1)}}

\* C25: every pair returned by sanitize_vert_edges and sanitize_edges is, up
\* to orientation, a pair at an even offset of the input with both ends in
\* range: an edge with an end out of range goes as a whole and the values
\* next to it are not paired anew.
C25_NoRepairedEdges ==
    SanitizeReturned =>
        \A p \in PairsOfFlat(ret) : {p[1], p[2]} \in InputEdgesInRange

\* the names of the entries of the bones array built so far
BonesOutNames == {local.bones_out[i].name : i \in 1..Len(local.bones_out)}

\* the array position, from 0, of the entry of bones called bn
PositionInBones(bn) ==
    (CHOOSE i \in 1..Len(local.bones_out) : local.bones_out[i].name = bn) - 1

\* the bone indices written in a weighted vertices stream, vertex by vertex
RECURSIVE StreamBoneIndices(_)
StreamBoneIndices(vertices_seq) ==
    IF vertices_seq = <<>> THEN <<>>
    ELSE LET n == vertices_seq[1]
         IN  <<[k \in 1..n |-> vertices_seq[4 * k - 2]]>>
             \o StreamBoneIndices(SubSeq(vertices_seq, 2 + 4 * n, Len(vertices_seq)))

\* the weight fallback bone of the running pass (line 184)
FallbackBoneOf(o) ==
    LET fb0 == first_nonroot_deform_child(args.arm[1].all_bones,
                                          DeformNames(args.arm[1].all_bones))
    IN  IF fb0 # <<>> THEN fb0[1] ELSE SlotBoneOf(o)

\* the bones that influence the region vertex new_i of mesh o, in the order
\* written: those of build_vertex_influences for its source vertex
InfluencingBones(o, new_i) ==
    LET infl == build_vertex_influences(o.vertices, o.vertex_groups,
                    DeformNames(args.arm[1].all_bones), args.cfg.WEIGHT_EPS,
                    args.cfg.MAX_INFLUENCES, FallbackBoneOf(o))[region.new_to_src[new_i][1] + 1]
    IN  [k \in 1..Len(infl) |-> infl[k][1]]

\* C26: in export_now every slot's bone and every bone's parent is the name
\* of an entry of the bones array, the document written holds these slots
\* and bones, and every bone index of a weighted vertices stream is the
\* array position, in [0, len(bones)), of the bone that influences the
\* vertex (the fallback bone for a vertex without influence).
C26_BoneReferencesResolve ==
    (fn = "export_now" /\ local.bones_out # <<>>) =>
        /\ Len(local.bones_out) = Len(args.arm[1].all_bones)
        /\ \A i \in 1..Len(local.slots_out) : local.slots_out[i].bone \in BonesOutNames
        /\ \A i \in 1..Len(local.bones_out) :
               "parent" \in DOMAIN local.bones_out[i]
                   => local.bones_out[i].parent \in BonesOutNames
        /\ fs.out_json # <<>> =>
               /\ fs.out_json[1].bones = local.bones_out
               /\ fs.out_json[1].slots = local.slots_out
               /\ Len(local.slots_out) = Len(local.meshes)
        /\ (pc = "mesh_validate" /\ WeightedFlag(CurrentMesh)) =>
               /\ Len(StreamBoneIndices(att.vertices)) = Len(region.region_xy)
               /\ \A v \in 1..Len(region.region_xy) :
                      LET idx == StreamBoneIndices(att.vertices)[v]
                          bones == InfluencingBones(CurrentMesh, v)
                      IN  /\ Len(idx) = Len(bones)
                          /\ \A k \in 1..Len(idx) :
                                 /\ idx[k] \in 0..(Len(local.bones_out) - 1)
                                 /\ idx[k] = PositionInBones(bones[k])

\* a quad weighted to both bones, with a vertex that falls back
C26_Witness ==
    /\ fn = "export_now" /\ pc = "mesh_validate" /\ WeightedFlag(CurrentMesh)
    /\ CurrentMesh.name = "quad" /\ args.cfg.MAX_INFLUENCES = 2
    /\ local.bones_out[2].name = "hand"
    /\ \E v \in 1..4 : StreamBoneIndices(att.vertices)[v] = <<1, 0>>
    /\ \E v \in 1..4 : StreamBoneIndices(att.vertices)[v] = <<1>>
    /\ local.slots_out[Len(local.slots_out)].bone = "arm"

\* the lines export_now logs when validate_attachment_edges raises
EdgeValidationErrors ==
    {k \in 1..Len(LOG) : LOG[k][1] = "[EdgeValidation][ERROR]"}

\* C27: for every attachment export_now builds, validate_attachment_edges
\* returns without raising and no [EdgeValidation][ERROR] line is logged:
\* the edges written are an even number of even indices below twice the
\* number of region vertices, no edge joining a vertex to itself; an
\* attachment that carries edges has at least one region vertex.
C27_EdgeValidationNeverRaises ==
    fn = "export_now" =>
        /\ EdgeValidationErrors = {}
        /\ pc \in {"validate", "done"} =>
               /\ validate_attachment_edges(att) = "ok"
               /\ Len(att.uvs) = 2 * Len(region.region_xy)
               /\ "edges" \in DOMAIN att =>
                      /\ Len(region.region_xy) > 0
                      /\ att.edges # <<>>
                      /\ EdgeStreamOk(att.edges, Len(region.region_xy))
        /\ pc = "done" => ret = "ok" /\ LOG = <<<<"[OK]", args.name>>>>

\* validated attachments: one with the edges of the mesh, one with the hull
\* perimeter of the fallback, each logged as [OK]
C27_Witness ==
    /\ fn = "export_now" /\ pc = "done" /\ ret = "ok"
    /\ "edges" \in DOMAIN att /\ Len(att.edges) >= 6
    /\ DerivedEdges = <<>> /\ Len(region.hull_idx) >= 3
    /\ LOG = <<<<"[OK]", "mesh">>>>

====
